---- MODULE Spec2Model ----
(***************************************************************************)
(* The documentation worker of obsidian-developer-docs as a state machine. *)
(*                                                                         *)
(* Two worker modules exist in the repository: the unified worker          *)
(* (src/worker/src/index.ts, "v2") and the older multi-endpoint proxy      *)
(* (src/unnamed/part_001, "legacy").  env.variant says which of the two is *)
(* deployed.  A request occupies a slot; its handler advances from one     *)
(* await to the next, one action per stretch of synchronous code.          *)
(*                                                                         *)
(* JavaScript values are tagged records, JavaScript strings are tuples of  *)
(* one-character strings, so that trim, startsWith, endsWith, toLowerCase  *)
(* and template concatenation are computed and not assumed.                *)
(***************************************************************************)
EXTENDS Integers, Sequences, FiniteSets, TLC

VARIABLES env, slot, bucket, now, quota, lastPut, modal, script

vars == <<env, slot, bucket, now, quota, lastPut, modal, script>>

\* The state of the worker; of the search modal and the ingestion script.
workerVars == <<env, slot, bucket, now, quota, lastPut>>
clientVars == <<modal, script>>

(***************************************************************************)
(* Bounds of the model.                                                    *)
(***************************************************************************)
\* requests taken in one behaviour of Spec
SeqReqs == 2
\* requests taken in one behaviour of SpecConc
ConcReqs == 3
\* requests in flight at once in SpecConc
NumSlots == 2
\* requests taken in one behaviour of SpecCors
CorsReqs == 1
\* calls of performSearch under way at once in SpecModal
MaxSearches == 2
\* markdown files the directory walk of SpecScript can find
MaxFound == 7

(***************************************************************************)
(* JavaScript values.                                                      *)
(***************************************************************************)
Undefined == [t |-> "undefined"]
Null == [t |-> "null"]
NaN == [t |-> "NaN"]
Str(s) == [t |-> "string", v |-> s]
Num(n) == [t |-> "number", v |-> n]
Bool(b) == [t |-> "boolean", v |-> b]
Obj(f) == [t |-> "object", v |-> f]

\* An object without properties: {}.
EmptyObj == Obj([k \in {} |-> Undefined])

\* a ?? b and a?.b test for null and undefined only.
Nullish(x) == x.t \in {"undefined", "null"}

\* ToBoolean: what !x, x || y and if (x) test.
Truthy(x) ==
  CASE x.t = "string" -> x.v # <<>>
    [] x.t = "number" -> x.v # 0
    [] x.t = "boolean" -> x.v
    [] x.t = "object" -> TRUE
    [] OTHER -> FALSE

Coalesce(a, b) == IF Nullish(a) THEN b ELSE a

OrElse(a, b) == IF Truthy(a) THEN a ELSE b

\* o.k and o?.k: a missing property, or a property of a nullish o under ?.,
\* reads as undefined.
Get(o, k) ==
  IF o.t = "object" /\ k \in DOMAIN o.v THEN o.v[k] ELSE Undefined

(***************************************************************************)
(* Strings.                                                                *)
(***************************************************************************)
UpperChars ==
  <<"A", "B", "C", "D", "E", "F", "G", "H", "I", "J", "K", "L", "M",
    "N", "O", "P", "Q", "R", "S", "T", "U", "V", "W", "X", "Y", "Z">>

LowerChars ==
  <<"a", "b", "c", "d", "e", "f", "g", "h", "i", "j", "k", "l", "m",
    "n", "o", "p", "q", "r", "s", "t", "u", "v", "w", "x", "y", "z">>

DigitChars == <<"0", "1", "2", "3", "4", "5", "6", "7", "8", "9">>

WhiteSpace == {" ", "\t", "\n"}

LowerChar(c) ==
  IF \E i \in 1..26 : UpperChars[i] = c
  THEN LowerChars[CHOOSE i \in 1..26 : UpperChars[i] = c]
  ELSE c

toLowerCase(s) == [i \in 1..Len(s) |-> LowerChar(s[i])]

startsWith(s, p) == Len(s) >= Len(p) /\ SubSeq(s, 1, Len(p)) = p

endsWith(s, p) ==
  Len(s) >= Len(p) /\ SubSeq(s, Len(s) - Len(p) + 1, Len(s)) = p

\* s.includes(p): p occurs in s as a substring.
includes(s, p) ==
  \E i \in 1..(Len(s) - Len(p) + 1) : SubSeq(s, i, i + Len(p) - 1) = p

RECURSIVE trimStart(_)
trimStart(s) ==
  IF s # <<>> /\ Head(s) \in WhiteSpace THEN trimStart(Tail(s)) ELSE s

RECURSIVE trimEnd(_)
trimEnd(s) ==
  IF s # <<>> /\ s[Len(s)] \in WhiteSpace
  THEN trimEnd(SubSeq(s, 1, Len(s) - 1))
  ELSE s

trim(s) == trimEnd(trimStart(s))

\* s.split(sep) for a one-character separator.
RECURSIVE split(_, _)
split(s, sep) ==
  IF \E i \in 1..Len(s) : s[i] = sep
  THEN LET i == CHOOSE i \in 1..Len(s) :
                  s[i] = sep /\ \A j \in 1..(i - 1) : s[j] # sep
       IN <<SubSeq(s, 1, i - 1)>> \o split(SubSeq(s, i + 1, Len(s)), sep)
  ELSE <<s>>

\* Decimal digits of a natural number.
RECURSIVE NatToString(_)
NatToString(n) ==
  IF n < 10 THEN <<DigitChars[n + 1]>>
  ELSE NatToString(n \div 10) \o <<DigitChars[(n % 10) + 1]>>

(***************************************************************************)
(* Numbers are fixed-point: Num(v) is the number v / 100, which holds the  *)
(* result counts and the score thresholds of the requests exactly.         *)
(***************************************************************************)
Whole(n) == Num(100 * n)

\* Number.prototype.toString of v / 100: no fraction when it is zero, no
\* trailing zero.
NumberToString(v) ==
  LET a == IF v < 0 THEN 0 - v ELSE v
      sign == IF v < 0 THEN <<"-">> ELSE <<>>
      frac == a % 100
  IN sign \o NatToString(a \div 100) \o
     (IF frac = 0 THEN <<>>
      ELSE IF frac % 10 = 0 THEN <<".", DigitChars[(frac \div 10) + 1]>>
      ELSE <<".", DigitChars[(frac \div 10) + 1], DigitChars[(frac % 10) + 1]>>)

IsDigit(c) == \E i \in 1..10 : DigitChars[i] = c

DigitValue(c) == (CHOOSE i \in 1..10 : DigitChars[i] = c) - 1

RECURSIVE DigitsValue(_)
DigitsValue(ds) ==
  IF ds = <<>> THEN 0
  ELSE 10 * DigitsValue(SubSeq(ds, 1, Len(ds) - 1)) + DigitValue(ds[Len(ds)])

\* Number(s) of a string: blank is 0, a decimal literal is its value (the
\* model's literals have at most two fraction digits), anything else NaN.
StringToNumber(s) ==
  LET t == trim(s)
      neg == t # <<>> /\ Head(t) = "-"
      u == IF neg THEN Tail(t) ELSE t
      parts == split(u, ".")
      ip == parts[1]
      fp == IF Len(parts) = 2 THEN parts[2] ELSE <<>>
      wellFormed == /\ Len(parts) <= 2
                    /\ ip \o fp # <<>>
                    /\ \A i \in 1..Len(ip) : IsDigit(ip[i])
                    /\ \A i \in 1..Len(fp) : IsDigit(fp[i])
                    /\ Len(fp) <= 2
      hundredths == DigitsValue(IF Len(fp) = 1 THEN fp \o <<"0">> ELSE fp)
      magnitude == 100 * DigitsValue(ip) + hundredths
  IN IF t = <<>> THEN Num(0)
     ELSE IF wellFormed THEN Num(IF neg THEN 0 - magnitude ELSE magnitude)
     ELSE NaN

\* Number(x)
Number(x) ==
  CASE x.t = "number" -> x
    [] x.t = "string" -> StringToNumber(x.v)
    [] x.t = "boolean" -> IF x.v THEN Whole(1) ELSE Whole(0)
    [] x.t = "null" -> Whole(0)
    [] OTHER -> NaN

\* Math.max and Math.min of two numbers: NaN if either is NaN.
MathMax(a, b) ==
  IF a = NaN \/ b = NaN THEN NaN ELSE IF a.v >= b.v THEN a ELSE b

MathMin(a, b) ==
  IF a = NaN \/ b = NaN THEN NaN ELSE IF a.v <= b.v THEN a ELSE b

\* String(v) for the values that occur as metadata values.
String(x) ==
  CASE x.t = "string" -> x.v
    [] x.t = "number" -> NumberToString(x.v)
    [] x.t = "boolean" -> IF x.v THEN <<"t", "r", "u", "e">> ELSE <<"f", "a", "l", "s", "e">>
    [] x.t = "null" -> <<"n", "u", "l", "l">>
    [] x.t = "NaN" -> <<"N", "a", "N">>
    [] x.t = "undefined" -> <<"u", "n", "d", "e", "f", "i", "n", "e", "d">>
    [] OTHER -> <<"[", "o", "b", "j", "e", "c", "t", " ", "O", "b", "j", "e", "c", "t", "]">>

\* new Date().toISOString() at clock value n (one tick per request).
toISOString(n) == <<"2", "0", "2", "5", "-", "0", "1", "-", "0", "1", "T", "0", "0", ":", "0", "0", ":">> \o NatToString(10 + (n % 50)) \o <<".", "0", "0", "0", "Z">>

(***************************************************************************)
(* Responses.                                                              *)
(***************************************************************************)
\* A header set without entries.
NoHeaders == [h \in {} |-> <<>>]

NoResponse == [status |-> 0, headers |-> NoHeaders, body |-> [kind |-> "none"]]

\* new Response(text, { status, headers })
TextResponse(text, status, headers) ==
  [status |-> status, headers |-> headers,
   body |-> [kind |-> "text", text |-> text]]

\* new Response(null, { status, headers })
EmptyResponse(status, headers) ==
  [status |-> status, headers |-> headers, body |-> [kind |-> "none"]]

\* json(o, status, headers): the headers passed in override Content-Type.
json(o, status, headers) ==
  [status |-> status,
   headers |-> headers @@ [ContentType |-> <<"a", "p", "p", "l", "i", "c", "a", "t", "i", "o", "n", "/", "j", "s", "o", "n">>],
   body |-> [kind |-> "json", val |-> o]]

\* new Response(JSON.stringify(o), { status, headers: { ...headers,
\* 'Content-Type': 'application/json' } }) of the legacy worker.
legacy_json(o, status, headers) ==
  [status |-> status,
   headers |-> [ContentType |-> <<"a", "p", "p", "l", "i", "c", "a", "t", "i", "o", "n", "/", "j", "s", "o", "n">>] @@ headers,
   body |-> [kind |-> "json", val |-> o]]

(***************************************************************************)
(* A slot holds one request from its arrival to its response.              *)
(*   pc     where the handler is suspended ("idle", "done", "threw", or    *)
(*          the await it is waiting on)                                    *)
(*   id     the request's number in order of arrival                       *)
(*   calls  the calls to collaborators the handler has issued so far       *)
(***************************************************************************)
NoRequest ==
  [method |-> "", pathname |-> "", origin |-> Null, authorization |-> Null,
   accept |-> Null, contentType |-> Null, params |-> EmptyObj,
   body |-> Undefined]

IdleSlot ==
  [pc |-> "idle", id |-> 0, req |-> NoRequest, cors |-> NoHeaders, loc |-> <<>>,
   resp |-> NoResponse, calls |-> <<>>]

\* The handler returns the response r.
Return(sl, r) == [sl EXCEPT !.pc = "done", !.resp = r]

\* The handler's promise rejects: the exception leaves the worker's fetch.
Throw(sl, msg) ==
  [sl EXCEPT !.pc = "threw",
             !.resp = [status |-> -1, headers |-> NoHeaders,
                       body |-> [kind |-> "exception", text |-> msg]]]

\* The handler issues the call c and is suspended at pc until it settles.
Await(sl, pc, c) == [sl EXCEPT !.pc = pc, !.calls = Append(@, c)]

\* A call identified by the operation alone.
Call(op) == [op |-> op]

\* A request body that req.json() cannot parse.
Malformed == [t |-> "malformed"]

(***************************************************************************)
(* CORS Policy Evaluator.                                                  *)
(***************************************************************************)
\* allowedOrigins.split(",").map(s => s.trim()).filter(Boolean)
AllowedList(allowedOrigins) ==
  LET parts == split(allowedOrigins, ",")
  IN {trim(parts[i]) : i \in 1..Len(parts)} \ {<<>>}

getCorsHeaders(origin, allowedOrigins) ==
  LET allowed == AllowedList(IF allowedOrigins = Undefined
                             THEN <<"*">> ELSE allowedOrigins.v)
      allowAll == <<"*">> \in allowed
      allowOrigin ==
        IF allowAll THEN <<"*">>
        ELSE IF Truthy(origin) /\ origin.v \in allowed THEN origin.v
        ELSE <<"n", "u", "l", "l">>
  IN [AccessControlAllowOrigin |-> allowOrigin,
      AccessControlAllowHeaders |-> <<"C", "o", "n", "t", "e", "n", "t", "-", "T", "y", "p", "e", ",", " ", "A", "u", "t", "h", "o", "r", "i", "z", "a", "t", "i", "o", "n", ",", " ", "A", "c", "c", "e", "p", "t">>,
      AccessControlAllowMethods |-> <<"G", "E", "T", ",", " ", "P", "O", "S", "T", ",", " ", "O", "P", "T", "I", "O", "N", "S">>]

legacy_corsHeaders(originHeader, allowedOrigins) ==
  LET origin == OrElse(originHeader, Str(<<>>))
      allowed == AllowedList(OrElse(allowedOrigins, Str(<<"*">>)).v)
      allowAll == <<"*">> \in allowed
      allowOrigin ==
        IF allowAll THEN <<"*">>
        ELSE IF origin.v \in allowed THEN origin.v
        ELSE <<"n", "u", "l", "l">>
  IN [AccessControlAllowOrigin |-> allowOrigin,
      AccessControlAllowMethods |-> <<"G", "E", "T", ",", " ", "P", "O", "S", "T", ",", " ", "O", "P", "T", "I", "O", "N", "S">>,
      AccessControlAllowHeaders |-> <<"C", "o", "n", "t", "e", "n", "t", "-", "T", "y", "p", "e", ",", " ", "A", "u", "t", "h", "o", "r", "i", "z", "a", "t", "i", "o", "n">>]

(***************************************************************************)
(* Auth Gate: TRUE when the request is refused with 401.                   *)
(***************************************************************************)
\* Variant: any Authorization header is accepted, only its absence refused.
Unauthorized_presenceOnly(e, authHeader) ==
  /\ Truthy(e.INGESTION_TOKEN)
  /\ ~Truthy(authHeader)

\* Variant: the gate is applied even when no token is configured.
Unauthorized_alwaysGated(e, authHeader) ==
  \/ ~Truthy(authHeader)
  \/ authHeader # Str(<<"B", "e", "a", "r", "e", "r", " ">> \o String(e.INGESTION_TOKEN))

Unauthorized(e, authHeader) ==
  /\ Truthy(e.INGESTION_TOKEN)
  /\ \/ ~Truthy(authHeader)
     \/ authHeader # Str(<<"B", "e", "a", "r", "e", "r", " ">> \o e.INGESTION_TOKEN.v)

(***************************************************************************)
(* Arrival of a request: the runtime calls the worker's fetch.             *)
(***************************************************************************)
Receive(s, r) ==
  /\ slot[s].pc \in {"idle", "done", "threw"}
  /\ quota > 0
  /\ quota' = quota - 1
  /\ now' = now + 1
  /\ slot' = [slot EXCEPT ![s] =
                 [IdleSlot EXCEPT !.pc = "fetch", !.id = now', !.req = r]]
  /\ UNCHANGED <<env, bucket, lastPut>>

(***************************************************************************)
(* fetch of the unified worker: CORS headers, preflight, routing.          *)
(***************************************************************************)
fetch(s) ==
  /\ slot[s].pc = "fetch"
  /\ env.variant = "v2"
  /\ LET req == slot[s].req
         corsHeaders == getCorsHeaders(req.origin, env.ALLOWED_ORIGINS)
         sl == [slot[s] EXCEPT !.cors = corsHeaders]
     IN slot' = [slot EXCEPT ![s] =
          IF req.method = "OPTIONS" THEN Return(sl, EmptyResponse(204, corsHeaders))
          ELSE IF req.pathname = "/ask" THEN [sl EXCEPT !.pc = "handleAsk"]
          ELSE IF req.pathname = "/mcp" THEN [sl EXCEPT !.pc = "NLWebMcp.fetch"]
          ELSE IF req.pathname = "/api/ingest" THEN [sl EXCEPT !.pc = "handleIngestion"]
          ELSE IF req.pathname = "/api/autorag-search" THEN [sl EXCEPT !.pc = "handleAsk"]
          ELSE IF req.pathname = "/api/status"
            THEN Return(sl, json([operational |-> TRUE,
                                  ai_binding_available |-> env.AI,
                                  ingestion_enabled |-> Truthy(env.INGESTION_TOKEN),
                                  external_llm |-> OrElse(env.USE_EXTERNAL_LLM, Str(<<"n", "o", "n", "e">>)).v,
                                  timestamp |-> toISOString(now)],
                                 200, corsHeaders))
          ELSE Await(sl, "ASSETS.fetch", Call("assets"))]
  /\ UNCHANGED <<env, bucket, now, quota, lastPut>>

\* What the static-asset resolver can answer: the asset, a miss, a failure.
AssetStatuses == {200, 404, 500}

\* The static-asset resolver answers: a miss becomes notFound(corsHeaders),
\* anything else is passed through with the resolver's own headers.
fetch_assets(s) ==
  /\ slot[s].pc = "ASSETS.fetch"
  /\ \E status \in AssetStatuses :
       slot' = [slot EXCEPT ![s] =
         IF status = 404
         THEN Return(@, TextResponse("Not Found", 404, @.cors))
         ELSE Return(@, [status |-> status, headers |-> NoHeaders,
                         body |-> [kind |-> "asset"]])]
  /\ UNCHANGED <<env, bucket, now, quota, lastPut>>

(***************************************************************************)
(* fetch of the legacy worker.  The handlers are returned without await,   *)
(* so the try/catch around the switch never sees a handler's rejection.    *)
(***************************************************************************)
legacy_fetch(s) ==
  /\ slot[s].pc = "fetch"
  /\ env.variant = "legacy"
  /\ LET req == slot[s].req
         corsHeaders == legacy_corsHeaders(req.origin, env.ALLOWED_ORIGINS)
         sl == [slot[s] EXCEPT !.cors = corsHeaders]
     IN slot' = [slot EXCEPT ![s] =
          IF req.method = "OPTIONS" THEN Return(sl, EmptyResponse(200, corsHeaders))
          ELSE IF req.pathname = "/api/autorag-search" THEN [sl EXCEPT !.pc = "legacy.handleSearch"]
          ELSE IF req.pathname = "/api/ingest" THEN [sl EXCEPT !.pc = "legacy.handleIngestion"]
          ELSE IF req.pathname = "/api/render-ingest" THEN [sl EXCEPT !.pc = "legacy.handleRenderAndIngest"]
          ELSE IF req.pathname = "/api/sync" THEN [sl EXCEPT !.pc = "legacy.handleSync"]
          ELSE IF req.pathname = "/api/status" THEN [sl EXCEPT !.pc = "legacy.handleStatus"]
          ELSE Return(sl, TextResponse("Not Found", 404, corsHeaders))]
  /\ UNCHANGED <<env, bucket, now, quota, lastPut>>

(***************************************************************************)
(* Ingestion Handler: the stored record.                                   *)
(***************************************************************************)
\* body.path.startsWith("/") ? body.path.slice(1) : body.path
StorageKey(path) == IF startsWith(path, <<"/">>) THEN Tail(path) ELSE path

\* Variant: || in place of ??, an empty content_type is inferred over.
ResolveContentType_or(content_type, key) ==
  OrElse(content_type,
         Str(IF endsWith(toLowerCase(key), <<".", "h", "t", "m", "l">>)
             THEN <<"t", "e", "x", "t", "/", "h", "t", "m", "l">>
             ELSE <<"t", "e", "x", "t", "/", "m", "a", "r", "k", "d", "o", "w", "n">>))

\* body.content_type ?? (key.toLowerCase().endsWith(".html") ? ... : ...)
ResolveContentType(content_type, key) ==
  Coalesce(content_type,
           Str(IF endsWith(toLowerCase(key), <<".", "h", "t", "m", "l">>)
               THEN <<"t", "e", "x", "t", "/", "h", "t", "m", "l">> ELSE <<"t", "e", "x", "t", "/", "m", "a", "r", "k", "d", "o", "w", "n">>))

\* { source, timestamp, ...Object.fromEntries(Object.entries(metadata || {})
\*   .map(([k, v]) => [k, String(v)])) }: a later property of an object
\* literal replaces an earlier one of the same name.
CustomMetadata(source, timestamp, metadata) ==
  LET m == OrElse(metadata, EmptyObj)
      entries == IF m.t = "object" THEN m.v ELSE EmptyObj.v
      caller == [k \in DOMAIN entries |-> String(entries[k])]
  IN caller @@ [source |-> source, timestamp |-> timestamp]

\* What DOCS_BUCKET.put(key, value, { httpMetadata, customMetadata }) stores.
Blob(value, contentType, customMetadata) ==
  [content |-> value,
   httpMetadata |-> [contentType |-> contentType],
   customMetadata |-> customMetadata]

\* Variant: a key that exists is kept, the store is create-only.
Put_ifAbsent(b, key, blob) == b @@ (key :> blob)

\* The blob store replaces whatever the key held.
Put(b, key, blob) == (key :> blob) @@ b

(***************************************************************************)
(* handleIngestion of the unified worker.                                  *)
(***************************************************************************)
\* Method check and auth gate, up to await req.json().
handleIngestion(s) ==
  /\ slot[s].pc = "handleIngestion"
  /\ LET req == slot[s].req
         corsHeaders == slot[s].cors
     IN slot' = [slot EXCEPT ![s] =
          IF req.method # "POST"
          THEN Return(@, TextResponse("Method not allowed", 405, corsHeaders))
          ELSE IF Unauthorized(env, req.authorization)
          THEN Return(@, TextResponse("Unauthorized", 401, corsHeaders))
          ELSE Await(@, "handleIngestion:json", Call("req.json"))]
  /\ UNCHANGED <<env, bucket, now, quota, lastPut>>

\* From the parsed body to the call of DOCS_BUCKET.put.
handleIngestion_json(s) ==
  /\ slot[s].pc = "handleIngestion:json"
  /\ LET body == slot[s].req.body
         corsHeaders == slot[s].cors
         path == Get(body, "path")
         key == StorageKey(path.v)
         contentType == ResolveContentType(Get(body, "content_type"), key)
         customMetadata == CustomMetadata(<<"a", "p", "i", "-", "i", "n", "g", "e", "s", "t", "i", "o", "n">>, toISOString(now),
                                          Get(body, "metadata"))
     IN slot' = [slot EXCEPT ![s] =
          IF body = Malformed
          THEN Throw(@, "SyntaxError")
          ELSE IF Nullish(body)
          THEN Throw(@, "TypeError")
          ELSE IF ~Truthy(path) \/ ~Truthy(Get(body, "content"))
          THEN Return(@, json([error |-> "Path and content are required"],
                              400, corsHeaders))
          ELSE IF ~env.DOCS_BUCKET
          THEN Return(@, json([error |-> "R2 bucket not configured"],
                              500, corsHeaders))
          ELSE Await([@ EXCEPT !.loc = [key |-> key,
                        blob |-> Blob(Get(body, "content"), contentType,
                                      customMetadata)]],
                     "handleIngestion:put", Call("DOCS_BUCKET.put"))]
  /\ UNCHANGED <<env, bucket, now, quota, lastPut>>

\* DOCS_BUCKET.put settles: the write is applied, or the store throws.
handleIngestion_put(s) ==
  /\ slot[s].pc = "handleIngestion:put"
  /\ LET key == slot[s].loc.key
         corsHeaders == slot[s].cors
     IN \E stored \in BOOLEAN :
          IF stored
          THEN /\ bucket' = Put(bucket, key, slot[s].loc.blob)
               /\ lastPut' = (key :> slot[s]) @@ lastPut
               /\ slot' = [slot EXCEPT ![s] =
                    Return(@, json([success |-> TRUE,
                                    message |-> "Document ingested successfully",
                                    path |-> key], 200, corsHeaders))]
          ELSE /\ slot' = [slot EXCEPT ![s] =
                    Return(@, json([error |-> "Ingestion failed",
                                    details |-> "R2 put failed"],
                                   500, corsHeaders))]
               /\ UNCHANGED <<bucket, lastPut>>
  /\ UNCHANGED <<env, now, quota>>

(***************************************************************************)
(* Sync Trigger of the legacy worker.                                      *)
(***************************************************************************)
SyncConfigured(e) ==
  Truthy(e.ACCOUNT_ID) /\ Truthy(e.API_TOKEN) /\ Truthy(e.AUTORAG_NAME)

\* What the re-index endpoint can answer to the POST.
UpstreamReplies ==
  {[kind |-> "response", status |-> 200, parsable |-> TRUE],
   [kind |-> "response", status |-> 200, parsable |-> FALSE],
   [kind |-> "response", status |-> 429, parsable |-> TRUE],
   [kind |-> "response", status |-> 409, parsable |-> TRUE],
   [kind |-> "response", status |-> 500, parsable |-> TRUE],
   [kind |-> "network"]}

NoReply == [kind |-> "none"]

\* The replies a sync call of environment e can get.
SyncReplies(e) == IF SyncConfigured(e) THEN UpstreamReplies ELSE {NoReply}

\* response.ok
ok(status) == status >= 200 /\ status <= 299

\* Variant: only 429 counts as a cooldown.
Cooldown_only429(status) == status = 429

\* response.status === 429 || response.status === 409
Cooldown(status) == status = 429 \/ status = 409

\* A value the function returns, and an exception that leaves it.
Returned(value) == [raised |-> FALSE, value |-> value]

Raised(message) == [raised |-> TRUE, message |-> message]

\* The try block: fetch rejects, response.text() feeds the thrown Error,
\* response.json() rejects on a body that is not JSON.
triggerAutoRAGSync_try(reply) ==
  IF reply.kind = "network"
  THEN Raised("fetch failed")
  ELSE IF ~ok(reply.status)
  THEN IF Cooldown(reply.status)
       THEN Returned([skipped |-> TRUE,
                      reason |-> "Sync is on cooldown (3-minute minimum between syncs)"])
       ELSE Raised("Sync API error: " \o ToString(reply.status)
                     \o " - upstream text")
  ELSE IF ~reply.parsable
  THEN Raised("Unexpected token")
  ELSE Returned([success |-> TRUE, result |-> "job"])

\* Variant: no catch block, what the try block raises leaves the function.
triggerAutoRAGSync_uncaught(e, reply) ==
  IF ~Truthy(e.ACCOUNT_ID) \/ ~Truthy(e.API_TOKEN) \/ ~Truthy(e.AUTORAG_NAME)
  THEN Returned([skipped |-> TRUE, reason |-> "Not configured"])
  ELSE triggerAutoRAGSync_try(reply)

triggerAutoRAGSync(e, reply) ==
  IF ~Truthy(e.ACCOUNT_ID) \/ ~Truthy(e.API_TOKEN) \/ ~Truthy(e.AUTORAG_NAME)
  THEN Returned([skipped |-> TRUE, reason |-> "Not configured"])
  ELSE LET attempt == triggerAutoRAGSync_try(reply)
       IN IF attempt.raised
          THEN Returned([error |-> TRUE, message |-> attempt.message])
          ELSE attempt

\* The locals of a handler once its sync call has settled with reply.
SyncSettled(sl, reply, outcome) ==
  [sl EXCEPT !.loc = [syncReply |-> reply]
                     @@ (IF outcome.raised THEN <<>>
                         ELSE [syncResponse |-> outcome.value])
                     @@ @]

\* The handler calls triggerAutoRAGSync and is suspended at pc; the POST to
\* the re-index endpoint is issued only when the sync is configured.
AwaitSync(sl, pc) ==
  IF SyncConfigured(env) THEN Await(sl, pc, Call("reindex")) ELSE [sl EXCEPT !.pc = pc]

(***************************************************************************)
(* handleIngestion of the legacy worker.                                   *)
(***************************************************************************)
legacy_handleIngestion(s) ==
  /\ slot[s].pc = "legacy.handleIngestion"
  /\ LET request == slot[s].req
         headers == slot[s].cors
     IN slot' = [slot EXCEPT ![s] =
          IF request.method # "POST"
          THEN Return(@, TextResponse("Method not allowed", 405, headers))
          ELSE IF Unauthorized(env, request.authorization)
          THEN Return(@, TextResponse("Unauthorized", 401, headers))
          ELSE Await(@, "legacy.handleIngestion:json", Call("req.json"))]
  /\ UNCHANGED <<env, bucket, now, quota, lastPut>>

legacy_handleIngestion_json(s) ==
  /\ slot[s].pc = "legacy.handleIngestion:json"
  /\ LET body == slot[s].req.body
         headers == slot[s].cors
         path == Get(body, "path")
         key == StorageKey(path.v)
         contentType == ResolveContentType(Get(body, "content_type"), key)
         customMetadata == CustomMetadata(<<"c", "o", "n", "t", "i", "n", "u", "o", "u", "s", "-", "i", "n", "g", "e", "s", "t", "i", "o", "n">>,
                                          toISOString(now),
                                          Get(body, "metadata"))
     IN slot' = [slot EXCEPT ![s] =
          IF body = Malformed
          THEN Throw(@, "SyntaxError")
          ELSE IF Nullish(body)
          THEN Throw(@, "TypeError")
          ELSE IF ~Truthy(path) \/ ~Truthy(Get(body, "content"))
          THEN Return(@, legacy_json([error |-> "Path and content are required"],
                                     400, headers))
          ELSE Await([@ EXCEPT !.loc = [key |-> key,
                        blob |-> Blob(Get(body, "content"), contentType,
                                      customMetadata)]],
                     "legacy.handleIngestion:put", Call("DOCS_BUCKET.put"))]
  /\ UNCHANGED <<env, bucket, now, quota, lastPut>>

legacy_handleIngestion_put(s) ==
  /\ slot[s].pc = "legacy.handleIngestion:put"
  /\ LET key == slot[s].loc.key
         headers == slot[s].cors
     IN \E stored \in BOOLEAN :
          IF stored
          THEN /\ bucket' = Put(bucket, key, slot[s].loc.blob)
               /\ lastPut' = (key :> slot[s]) @@ lastPut
               /\ slot' = [slot EXCEPT ![s] =
                    AwaitSync(@, "legacy.handleIngestion:sync")]
          ELSE /\ slot' = [slot EXCEPT ![s] =
                    Return(@, legacy_json([error |-> "Ingestion failed",
                                           details |-> "R2 put failed"],
                                          500, headers))]
               /\ UNCHANGED <<bucket, lastPut>>
  /\ UNCHANGED <<env, now, quota>>

\* Variant: a failed sync fails the request.
legacy_handleIngestion_syncStrict(s) ==
  /\ slot[s].pc = "legacy.handleIngestion:sync"
  /\ \E reply \in SyncReplies(env) :
       LET outcome == triggerAutoRAGSync(env, reply)
           sl == SyncSettled(slot[s], reply, outcome)
       IN slot' = [slot EXCEPT ![s] =
            IF outcome.raised \/ "error" \in DOMAIN outcome.value
            THEN Return(sl, legacy_json([error |-> "Ingestion failed",
                                         details |-> "sync failed"],
                                        500, sl.cors))
            ELSE Return(sl, legacy_json([success |-> TRUE,
                                         message |-> "Document ingested successfully",
                                         path |-> sl.loc.key,
                                         sync |-> sl.loc.syncResponse],
                                        200, sl.cors))]
  /\ UNCHANGED <<env, bucket, now, quota, lastPut>>

legacy_handleIngestion_sync(s) ==
  /\ slot[s].pc = "legacy.handleIngestion:sync"
  /\ \E reply \in SyncReplies(env) :
       LET outcome == triggerAutoRAGSync(env, reply)
           sl == SyncSettled(slot[s], reply, outcome)
       IN slot' = [slot EXCEPT ![s] =
            IF outcome.raised
            THEN Return(sl, legacy_json([error |-> "Ingestion failed",
                                         details |-> outcome.message],
                                        500, sl.cors))
            ELSE Return(sl, legacy_json([success |-> TRUE,
                                         message |-> "Document ingested successfully",
                                         path |-> sl.loc.key,
                                         sync |-> sl.loc.syncResponse],
                                        200, sl.cors))]
  /\ UNCHANGED <<env, bucket, now, quota, lastPut>>

(***************************************************************************)
(* handleSync of the legacy worker.                                        *)
(***************************************************************************)
legacy_handleSync(s) ==
  /\ slot[s].pc = "legacy.handleSync"
  /\ LET request == slot[s].req
         headers == slot[s].cors
     IN slot' = [slot EXCEPT ![s] =
          IF request.method # "POST"
          THEN Return(@, TextResponse("Method not allowed", 405, headers))
          ELSE IF Unauthorized(env, request.authorization)
          THEN Return(@, TextResponse("Unauthorized", 401, headers))
          ELSE AwaitSync(@, "legacy.handleSync:sync")]
  /\ UNCHANGED <<env, bucket, now, quota, lastPut>>

legacy_handleSync_sync(s) ==
  /\ slot[s].pc = "legacy.handleSync:sync"
  /\ \E reply \in SyncReplies(env) :
       LET outcome == triggerAutoRAGSync(env, reply)
           sl == SyncSettled(slot[s], reply, outcome)
       IN slot' = [slot EXCEPT ![s] =
            IF outcome.raised
            THEN Return(sl, legacy_json([error |-> "Sync failed",
                                         details |-> outcome.message],
                                        500, sl.cors))
            ELSE Return(sl, legacy_json([success |-> TRUE,
                                         message |-> "Sync triggered successfully",
                                         response |-> sl.loc.syncResponse],
                                        200, sl.cors))]
  /\ UNCHANGED <<env, bucket, now, quota, lastPut>>

(***************************************************************************)
(* handleRenderAndIngest of the legacy worker.                             *)
(***************************************************************************)
\* new URL(u), for the URLs of the model: an absolute https URL parses, its
\* hostname runs up to the first "/" and an empty path becomes "/".
ParseURL(u) ==
  LET scheme == <<"h", "t", "t", "p", "s", ":", "/", "/">>
      rest == SubSeq(u, Len(scheme) + 1, Len(u))
      hostname == IF \E i \in 1..Len(rest) : rest[i] = "/"
                  THEN Head(split(rest, "/")) ELSE rest
  IN IF startsWith(u, scheme) /\ hostname # <<>>
     THEN [valid |-> TRUE, hostname |-> hostname,
           href |-> IF hostname = rest THEN u \o <<"/">> ELSE u]
     ELSE [valid |-> FALSE]

\* s.replace(/[^a-zA-Z0-9.-]/g, "_")
SafeHost(s) ==
  LET keep == {UpperChars[i] : i \in 1..26} \cup {LowerChars[i] : i \in 1..26}
              \cup {DigitChars[i] : i \in 1..10} \cup {".", "-"}
  IN [i \in 1..Len(s) |-> IF s[i] \in keep THEN s[i] ELSE "_"]

\* s.replace(/[:.]/g, "-")
SafeTime(s) == [i \in 1..Len(s) |-> IF s[i] \in {":", "."} THEN "-" ELSE s[i]]

RECURSIVE stripLeadingSlashes(_)
stripLeadingSlashes(s) ==
  IF s # <<>> /\ Head(s) = "/" THEN stripLeadingSlashes(Tail(s)) ELSE s

RECURSIVE stripTrailingSlashes(_)
stripTrailingSlashes(s) ==
  IF s # <<>> /\ s[Len(s)] = "/"
  THEN stripTrailingSlashes(SubSeq(s, 1, Len(s) - 1))
  ELSE s

\* keyPrefix ? keyPrefix.replace(/^\/+|\/+$/g, "") + "/" : ""
KeyPrefix(keyPrefix) ==
  IF Truthy(keyPrefix)
  THEN stripTrailingSlashes(stripLeadingSlashes(keyPrefix.v)) \o <<"/">>
  ELSE <<>>

RenderKey(keyPrefix, hostname, time) ==
  KeyPrefix(keyPrefix) \o SafeHost(hostname) \o <<"_">> \o SafeTime(time) \o <<".", "h", "t", "m", "l">>

\* Variant: the body is read before the bearer token is checked.
legacy_handleRenderAndIngest_bodyFirst(s) ==
  /\ slot[s].pc = "legacy.handleRenderAndIngest"
  /\ LET request == slot[s].req
         headers == slot[s].cors
     IN slot' = [slot EXCEPT ![s] =
          IF request.method # "POST"
          THEN Return(@, TextResponse("Method not allowed", 405, headers))
          ELSE IF Unauthorized(env, request.authorization)
          THEN Return([@ EXCEPT !.calls = Append(@, Call("req.json"))],
                      TextResponse("Unauthorized", 401, headers))
          ELSE IF ~env.MY_BROWSER
          THEN Return(@, legacy_json([error |-> "Browser binding not configured"],
                                     500, headers))
          ELSE Await(@, "legacy.handleRenderAndIngest:json", Call("req.json"))]
  /\ UNCHANGED <<env, bucket, now, quota, lastPut>>

\* Method check, auth gate and browser binding, up to await request.json().
legacy_handleRenderAndIngest(s) ==
  /\ slot[s].pc = "legacy.handleRenderAndIngest"
  /\ LET request == slot[s].req
         headers == slot[s].cors
     IN slot' = [slot EXCEPT ![s] =
          IF request.method # "POST"
          THEN Return(@, TextResponse("Method not allowed", 405, headers))
          ELSE IF Unauthorized(env, request.authorization)
          THEN Return(@, TextResponse("Unauthorized", 401, headers))
          ELSE IF ~env.MY_BROWSER
          THEN Return(@, legacy_json([error |-> "Browser binding not configured"],
                                     500, headers))
          ELSE Await(@, "legacy.handleRenderAndIngest:json", Call("req.json"))]
  /\ UNCHANGED <<env, bucket, now, quota, lastPut>>

\* From the parsed body to puppeteer.launch.
legacy_handleRenderAndIngest_json(s) ==
  /\ slot[s].pc = "legacy.handleRenderAndIngest:json"
  /\ LET body == slot[s].req.body
         headers == slot[s].cors
         url == Get(body, "url")
         allowList == AllowedList(OrElse(env.ALLOWED_RENDER_HOSTS, Str(<<>>)).v)
         target == ParseURL(url.v)
     IN slot' = [slot EXCEPT ![s] =
          IF body = Malformed
          THEN Return(@, TextResponse("Invalid JSON", 400, headers))
          ELSE IF ~Truthy(url)
          THEN Return(@, TextResponse("Missing url", 400, headers))
          ELSE IF ~target.valid
          THEN Return(@, TextResponse("Invalid url", 400, headers))
          ELSE IF allowList # {} /\ target.hostname \notin allowList
          THEN Return(@, TextResponse("Host not allowed", 403, headers))
          ELSE Await([@ EXCEPT !.loc = [target |-> target]],
                     "legacy.handleRenderAndIngest:render", Call("render"))]
  /\ UNCHANGED <<env, bucket, now, quota, lastPut>>

\* The headless browser delivers the page's HTML, or fails.
legacy_handleRenderAndIngest_render(s) ==
  /\ slot[s].pc = "legacy.handleRenderAndIngest:render"
  /\ LET body == slot[s].req.body
         headers == slot[s].cors
         target == slot[s].loc.target
         html == Str(<<"<", "p", ">">>)
         key == RenderKey(Get(body, "keyPrefix"), target.hostname,
                          toISOString(now))
         customMetadata == [source |-> <<"b", "r", "o", "w", "s", "e", "r", "-", "r", "e", "n", "d", "e", "r">>, url |-> target.href,
                            timestamp |-> toISOString(now)]
     IN \E rendered \in BOOLEAN :
          slot' = [slot EXCEPT ![s] =
            IF rendered
            THEN Await([@ EXCEPT !.loc = [key |-> key,
                          blob |-> Blob(html, Str(<<"t", "e", "x", "t", "/", "h", "t", "m", "l">>), customMetadata)]],
                       "legacy.handleRenderAndIngest:put", Call("DOCS_BUCKET.put"))
            ELSE Return(@, legacy_json([error |-> "Render-ingest failed",
                                        details |-> "navigation failed"],
                                       500, headers))]
  /\ UNCHANGED <<env, bucket, now, quota, lastPut>>

legacy_handleRenderAndIngest_put(s) ==
  /\ slot[s].pc = "legacy.handleRenderAndIngest:put"
  /\ LET key == slot[s].loc.key
         headers == slot[s].cors
     IN \E stored \in BOOLEAN :
          IF stored
          THEN /\ bucket' = Put(bucket, key, slot[s].loc.blob)
               /\ lastPut' = (key :> slot[s]) @@ lastPut
               /\ slot' = [slot EXCEPT ![s] =
                    AwaitSync(@, "legacy.handleRenderAndIngest:sync")]
          ELSE /\ slot' = [slot EXCEPT ![s] =
                    Return(@, legacy_json([error |-> "Render-ingest failed",
                                           details |-> "R2 put failed"],
                                          500, headers))]
               /\ UNCHANGED <<bucket, lastPut>>
  /\ UNCHANGED <<env, now, quota>>

legacy_handleRenderAndIngest_sync(s) ==
  /\ slot[s].pc = "legacy.handleRenderAndIngest:sync"
  /\ \E reply \in SyncReplies(env) :
       LET outcome == triggerAutoRAGSync(env, reply)
           sl == SyncSettled(slot[s], reply, outcome)
       IN slot' = [slot EXCEPT ![s] =
            IF outcome.raised
            THEN Return(sl, legacy_json([error |-> "Render-ingest failed",
                                         details |-> outcome.message],
                                        500, sl.cors))
            ELSE Return(sl, legacy_json([success |-> TRUE, key |-> sl.loc.key,
                                         sync |-> sl.loc.syncResponse],
                                        200, sl.cors))]
  /\ UNCHANGED <<env, bucket, now, quota, lastPut>>

(***************************************************************************)
(* Configurations and requests of the model.                               *)
(***************************************************************************)
Token == <<"s", "3", "c", "r", "e", "t">>

DefaultEnv ==
  [variant |-> "v2", INGESTION_TOKEN |-> Undefined, DOCS_BUCKET |-> TRUE,
   AI |-> TRUE, USE_EXTERNAL_LLM |-> Undefined, DEFAULT_TOPK |-> Undefined,
   DEFAULT_THRESHOLD |-> Undefined, STREAM_DEFAULT |-> Undefined,
   ALLOWED_ORIGINS |-> Undefined, ACCOUNT_ID |-> Str(<<"a", "c", "c", "t">>),
   API_TOKEN |-> Str(<<"a", "p", "i">>), AUTORAG_NAME |-> Str(<<"d", "o", "c", "s">>),
   MY_BROWSER |-> TRUE, ALLOWED_RENDER_HOSTS |-> Undefined]

LegacyEnv == [DefaultEnv EXCEPT !.variant = "legacy"]

IngestTokens == {Undefined, Str(Token)}

IngestEnvs ==
  {[DefaultEnv EXCEPT !.INGESTION_TOKEN = t, !.DOCS_BUCKET = b] :
     t \in IngestTokens, b \in BOOLEAN}
  \cup
  {[e EXCEPT !.INGESTION_TOKEN = t] :
     t \in IngestTokens,
     e \in {LegacyEnv,
            [LegacyEnv EXCEPT !.API_TOKEN = Undefined],
            [LegacyEnv EXCEPT !.MY_BROWSER = FALSE],
            [LegacyEnv EXCEPT !.ALLOWED_RENDER_HOSTS = Str(<<"o", "k", ".", "e", "x", "a", "m", "p", "l", "e", ",", " ", "d", "o", "c", "s", ".", "e", "x", "a", "m", "p", "l", "e">>)]}}

Request(method, pathname, authorization, body) ==
  [NoRequest EXCEPT !.method = method, !.pathname = pathname,
                    !.authorization = authorization, !.body = body]

\* Authorization headers: absent, the right bearer token, a wrong bearer
\* token, the right token under another scheme.
AuthAbsent == Null
AuthBearer == Str(<<"B", "e", "a", "r", "e", "r", " ", "s", "3", "c", "r", "e", "t">>)
AuthMismatch == Str(<<"B", "e", "a", "r", "e", "r", " ", "g", "u", "e", "s", "s">>)
AuthWrongScheme == Str(<<"B", "a", "s", "i", "c", " ", "s", "3", "c", "r", "e", "t">>)

AuthHeaders == {AuthAbsent, AuthBearer, AuthMismatch, AuthWrongScheme}

IngestBodies ==
  {Malformed,
   Null,
   Obj([content |-> Str(<<"x">>)]),
   Obj([path |-> Str(<<"a", ".", "m", "d">>), content |-> Str(<<>>)]),
   Obj([path |-> Str(<<"a", ".", "m", "d">>), content |-> Str(<<"x">>)]),
   Obj([path |-> Str(<<"/", "a", ".", "m", "d">>), content |-> Str(<<"y">>)]),
   Obj([path |-> Str(<<"a", ".", "m", "d">>), content |-> Str(<<"y">>),
        metadata |-> Obj([source |-> Str(<<"e", "v", "i", "l">>), rank |-> Whole(7)])]),
   Obj([path |-> Str(<<"a", ".", "m", "d">>), content |-> Str(<<"x">>),
        metadata |-> Obj([timestamp |-> Str(<<"1", "9", "9", "9">>), draft |-> Bool(TRUE)])]),
   Obj([path |-> Str(<<"b", ".", "h", "t", "m", "l">>), content |-> Str(<<"x">>)]),
   Obj([path |-> Str(<<"B", ".", "H", "T", "M", "L">>), content |-> Str(<<"x">>)]),
   Obj([path |-> Str(<<"b", ".", "h", "t", "m", "l">>), content |-> Str(<<"x">>),
        content_type |-> Str(<<"t", "e", "x", "t", "/", "p", "l", "a", "i", "n">>)]),
   Obj([path |-> Str(<<"a", ".", "m", "d">>), content |-> Str(<<"x">>),
        content_type |-> Str(<<>>)]),
   Obj([path |-> Str(<<"a", ".", "m", "d">>), content |-> Str(<<"x">>),
        content_type |-> Null, metadata |-> Null])}

RenderBodies ==
  {Malformed,
   EmptyObj,
   Obj([url |-> Str(<<"n", "o", "t", " ", "a", " ", "u", "r", "l">>)]),
   Obj([url |-> Str(<<"h", "t", "t", "p", "s", ":", "/", "/", "o", "k", ".", "e", "x", "a", "m", "p", "l", "e", "/", "p">>)]),
   Obj([url |-> Str(<<"h", "t", "t", "p", "s", ":", "/", "/", "e", "v", "i", "l", ".", "e", "x", "a", "m", "p", "l", "e">>)]),
   Obj([url |-> Str(<<"h", "t", "t", "p", "s", ":", "/", "/", "o", "k", ".", "e", "x", "a", "m", "p", "l", "e", "/", "p">>), keyPrefix |-> Str(<<"/", "r", "/">>)])}

IngestRequests ==
  {Request("POST", "/api/ingest", a, b) :
     a \in {AuthAbsent, AuthBearer}, b \in IngestBodies}
  \cup
  {Request("POST", "/api/ingest", a, b) :
     a \in {AuthMismatch, AuthWrongScheme},
     b \in {Malformed, Obj([path |-> Str(<<"a", ".", "m", "d">>), content |-> Str(<<"x">>)])}}
  \cup
  {Request("POST", "/api/sync", a, Undefined) : a \in AuthHeaders}
  \cup
  {Request("POST", "/api/render-ingest", a, b) :
     a \in {AuthAbsent, AuthBearer, AuthMismatch}, b \in RenderBodies}
  \cup
  {Request("GET", p, AuthAbsent, Undefined) :
     p \in {"/api/ingest", "/api/sync", "/api/render-ingest"}}
  \cup
  {Request("OPTIONS", "/api/ingest", AuthAbsent, Undefined)}

(***************************************************************************)
(* The search modal of the documentation site and the ingestion script,    *)
(* before either has done anything.                                        *)
(***************************************************************************)
\* The refs of AutoRAGSearch.vue (lines 82-86) and its searches under way:
\* each is a call of performSearch waiting for fetch() or response.json().
ModalClosed ==
  [showModal |-> FALSE,
   searchQuery |-> <<>>,
   results |-> Null,
   loading |-> FALSE,
   error |-> Null,
   searches |-> <<>>]

\* ingest-docs.js before main(): its settings (lines 14-15), the position of
\* main, the files and the loop index, one position per call of ingestFile,
\* the settled results, the requests sent and the exit code.
ScriptIdle ==
  [DRY_RUN |-> FALSE,
   MAX_FILES |-> 0,
   pc |-> "main",
   files |-> 0,
   i |-> 0,
   task |-> <<>>,
   results |-> <<>>,
   ingestRequests |-> {},
   syncRequests |-> 0,
   exitCode |-> -1]

(***************************************************************************)
(* Spec: the ingest, sync and render-ingest endpoints, one request at a    *)
(* time.                                                                   *)
(***************************************************************************)
EmptyBucket == [k \in {} |-> Undefined]

Init ==
  /\ env \in IngestEnvs
  /\ slot = [s \in 1..1 |-> IdleSlot]
  /\ bucket = EmptyBucket
  /\ lastPut = EmptyBucket
  /\ now = 0
  /\ quota = SeqReqs
  /\ modal = ModalClosed
  /\ script = ScriptIdle

Next ==
  \/ \E s \in DOMAIN slot, r \in IngestRequests : Receive(s, r) /\ UNCHANGED clientVars
  \/ \E s \in DOMAIN slot : fetch(s) /\ UNCHANGED clientVars
  \/ \E s \in DOMAIN slot : fetch_assets(s) /\ UNCHANGED clientVars
  \/ \E s \in DOMAIN slot : legacy_fetch(s) /\ UNCHANGED clientVars
  \/ \E s \in DOMAIN slot : handleIngestion(s) /\ UNCHANGED clientVars
  \/ \E s \in DOMAIN slot : handleIngestion_json(s) /\ UNCHANGED clientVars
  \/ \E s \in DOMAIN slot : handleIngestion_put(s) /\ UNCHANGED clientVars
  \/ \E s \in DOMAIN slot : legacy_handleIngestion(s) /\ UNCHANGED clientVars
  \/ \E s \in DOMAIN slot : legacy_handleIngestion_json(s) /\ UNCHANGED clientVars
  \/ \E s \in DOMAIN slot : legacy_handleIngestion_put(s) /\ UNCHANGED clientVars
  \/ \E s \in DOMAIN slot : legacy_handleIngestion_sync(s) /\ UNCHANGED clientVars
  \/ \E s \in DOMAIN slot : legacy_handleSync(s) /\ UNCHANGED clientVars
  \/ \E s \in DOMAIN slot : legacy_handleSync_sync(s) /\ UNCHANGED clientVars
  \/ \E s \in DOMAIN slot : legacy_handleRenderAndIngest(s) /\ UNCHANGED clientVars
  \/ \E s \in DOMAIN slot : legacy_handleRenderAndIngest_json(s) /\ UNCHANGED clientVars
  \/ \E s \in DOMAIN slot : legacy_handleRenderAndIngest_render(s) /\ UNCHANGED clientVars
  \/ \E s \in DOMAIN slot : legacy_handleRenderAndIngest_put(s) /\ UNCHANGED clientVars
  \/ \E s \in DOMAIN slot : legacy_handleRenderAndIngest_sync(s) /\ UNCHANGED clientVars

Spec == Init /\ [][Next]_vars

(***************************************************************************)
(* SpecConc: ingest requests handled concurrently against one blob store.  *)
(***************************************************************************)
ConcEnvs == {DefaultEnv, [LegacyEnv EXCEPT !.API_TOKEN = Undefined]}

ConcRequests ==
  {Request("POST", "/api/ingest", AuthAbsent, b) :
     b \in {Obj([path |-> Str(<<"a", ".", "m", "d">>), content |-> Str(<<"x">>)]),
            Obj([path |-> Str(<<"/", "a", ".", "m", "d">>), content |-> Str(<<"y">>),
                 metadata |-> Obj([source |-> Str(<<"e", "v", "i", "l">>)])]),
            Obj([path |-> Str(<<"b", ".", "h", "t", "m", "l">>), content |-> Str(<<"x">>)])}}

InitConc ==
  /\ env \in ConcEnvs
  /\ slot = [s \in 1..NumSlots |-> IdleSlot]
  /\ bucket = EmptyBucket
  /\ lastPut = EmptyBucket
  /\ now = 0
  /\ quota = ConcReqs
  /\ modal = ModalClosed
  /\ script = ScriptIdle

NextConc ==
  \/ \E s \in DOMAIN slot, r \in ConcRequests : Receive(s, r) /\ UNCHANGED clientVars
  \/ \E s \in DOMAIN slot : fetch(s) /\ UNCHANGED clientVars
  \/ \E s \in DOMAIN slot : legacy_fetch(s) /\ UNCHANGED clientVars
  \/ \E s \in DOMAIN slot : handleIngestion(s) /\ UNCHANGED clientVars
  \/ \E s \in DOMAIN slot : handleIngestion_json(s) /\ UNCHANGED clientVars
  \/ \E s \in DOMAIN slot : handleIngestion_put(s) /\ UNCHANGED clientVars
  \/ \E s \in DOMAIN slot : legacy_handleIngestion(s) /\ UNCHANGED clientVars
  \/ \E s \in DOMAIN slot : legacy_handleIngestion_json(s) /\ UNCHANGED clientVars
  \/ \E s \in DOMAIN slot : legacy_handleIngestion_put(s) /\ UNCHANGED clientVars
  \/ \E s \in DOMAIN slot : legacy_handleIngestion_sync(s) /\ UNCHANGED clientVars

SpecConc == InitConc /\ [][NextConc]_vars

(***************************************************************************)
(* Request Normalizer of the unified worker.                               *)
(***************************************************************************)
parseBoolean(s, defaultValue) ==
  IF Nullish(s) THEN defaultValue
  ELSE toLowerCase(s.v) \in {<<"1">>, <<"t", "r", "u", "e">>, <<"y", "e", "s">>, <<"o", "n">>}

\* x?.toString()
OptionalToString(x) == IF Nullish(x) THEN Undefined ELSE Str(String(x))

\* url.searchParams.get(name)
SearchParam(req, name) ==
  IF name \in DOMAIN req.params.v THEN req.params.v[name] ELSE Null

\* req.headers.get("Accept") || ""
AcceptOf(req) == OrElse(req.accept, Str(<<>>)).v

\* Variant: the result count falls back to 5, the legacy default.
NormalizeBody_five(body, accept, e) ==
  [query |-> trim(String(OrElse(Get(body, "query"), Str(<<>>)))),
   topK |-> Number(Coalesce(Coalesce(Get(body, "topK"), e.DEFAULT_TOPK),
                            Str(<<"5">>))),
   threshold |-> Number(Coalesce(Coalesce(Get(body, "threshold"),
                                          e.DEFAULT_THRESHOLD),
                                 Str(<<"0", ".", "3", "0">>))),
   stream |-> \/ parseBoolean(OptionalToString(Get(body, "stream")), FALSE)
              \/ includes(accept, <<"t", "e", "x", "t", "/", "e", "v", "e", "n", "t", "-", "s", "t", "r", "e", "a", "m">>),
   rewrite |-> parseBoolean(OptionalToString(Get(body, "rewrite")), TRUE)]

\* The fields of a JSON body (lines 95-99).
NormalizeBody(body, accept, e) ==
  [query |-> trim(String(OrElse(Get(body, "query"), Str(<<>>)))),
   topK |-> Number(Coalesce(Coalesce(Get(body, "topK"), e.DEFAULT_TOPK),
                            Str(<<"6">>))),
   threshold |-> Number(Coalesce(Coalesce(Get(body, "threshold"),
                                          e.DEFAULT_THRESHOLD),
                                 Str(<<"0", ".", "3", "0">>))),
   stream |-> \/ parseBoolean(OptionalToString(Get(body, "stream")), FALSE)
              \/ includes(accept, <<"t", "e", "x", "t", "/", "e", "v", "e", "n", "t", "-", "s", "t", "r", "e", "a", "m">>),
   rewrite |-> parseBoolean(OptionalToString(Get(body, "rewrite")), TRUE)]

\* The fields of the query string (lines 101-105).
NormalizeURL(req, accept, e) ==
  [query |-> trim(OrElse(OrElse(SearchParam(req, "q"),
                                SearchParam(req, "query")), Str(<<>>)).v),
   topK |-> Number(Coalesce(Coalesce(SearchParam(req, "topK"),
                                     e.DEFAULT_TOPK), Str(<<"6">>))),
   threshold |-> Number(Coalesce(Coalesce(SearchParam(req, "threshold"),
                                          e.DEFAULT_THRESHOLD),
                                 Str(<<"0", ".", "3", "0">>))),
   stream |-> \/ parseBoolean(OrElse(SearchParam(req, "stream"),
                                     e.STREAM_DEFAULT), FALSE)
              \/ includes(accept, <<"t", "e", "x", "t", "/", "e", "v", "e", "n", "t", "-", "s", "t", "r", "e", "a", "m">>),
   rewrite |-> parseBoolean(SearchParam(req, "rewrite"), TRUE)]

(***************************************************************************)
(* Search Dispatcher of the unified worker.                                *)
(***************************************************************************)
\* The parameters aiSearch hands to env.AI.autorag(RAG_ID).aiSearch.
aiSearchParams(e, params) ==
  LET searchParams ==
        [query |-> params.query,
         rewrite_query |-> Coalesce(params.rewrite, Bool(TRUE)),
         max_num_results |->
           MathMin(MathMax(Coalesce(params.topK,
                                    Number(OrElse(e.DEFAULT_TOPK, Whole(6)))),
                           Whole(1)), Whole(50)),
         ranking_options |->
           [score_threshold |->
              MathMax(MathMin(Coalesce(params.threshold,
                                       Number(OrElse(e.DEFAULT_THRESHOLD,
                                                     Num(30)))),
                              Whole(1)), Whole(0))]]
  IN IF Truthy(params.stream)
     THEN searchParams @@ [stream |-> TRUE]
     ELSE searchParams

\* The parameters of the retrieval-only call of the external-LLM mode.
searchOnlyParams(p) ==
  [query |-> p.query,
   rewrite_query |-> Bool(p.rewrite),
   max_num_results |-> p.topK,
   ranking_options |-> [score_threshold |-> p.threshold]]

\* What the retrieval backend can answer to search().
Doc == [filename |-> <<"a", ".", "m", "d">>,
        content |-> <<[type |-> "text", text |-> <<"x">>],
                      [type |-> "image"]>>]

SearchResults ==
  {Undefined,
   Obj([object |-> Str(<<"p", "a", "g", "e">>)]),
   Obj([data |-> <<>>]),
   Obj([data |-> <<Doc>>]),
   Obj([data |-> <<Doc, Doc>>])}

\* What the retrieval backend answers to aiSearch().
AiSearchResult == Obj([response |-> Str(<<"a", "n", "s", "w", "e", "r">>), data |-> <<Doc>>])

RECURSIVE join(_, _)
join(parts, sep) ==
  IF parts = <<>> THEN <<>>
  ELSE IF Len(parts) = 1 THEN parts[1]
  ELSE parts[1] \o sep \o join(Tail(parts), sep)

\* The context block: one <file> element per retrieved document.
Chunks(data) ==
  join([i \in 1..Len(data) |->
          LET item == data[i]
              content == IF "content" \in DOMAIN item THEN item.content ELSE <<>>
              text == join([j \in 1..Len(content) |->
                              IF "text" \in DOMAIN content[j]
                              THEN content[j].text ELSE <<>>],
                           <<"\n", "\n">>)
          IN <<"<", "f", "i", "l", "e", " ", "n", "a", "m", "e", "=", "\"">> \o item.filename \o <<"\"", ">", "\n">> \o text
             \o <<"\n">> \o <<"<", "/", "f", "i", "l", "e", ">">>],
       <<"\n", "\n">>)

\* Variant: only a missing result or a missing data field counts, an empty
\* list of documents goes on to the generation call.
NoDocuments_missingOnly(searchResult) ==
  \/ Nullish(searchResult)
  \/ "data" \notin DOMAIN searchResult.v

\* What the retrieval backend can answer to aiSearch() from handleAsk.
AiSearchResults ==
  {AiSearchResult,
   Obj([response |-> Str(<<"n", "o", "n", "e">>), data |-> <<>>])}

\* !searchResult?.data?.length
NoDocuments(searchResult) ==
  \/ Nullish(searchResult)
  \/ "data" \notin DOMAIN searchResult.v
  \/ Len(searchResult.v.data) = 0

\* Variant: the generation call is issued together with the retrieval call,
\* without waiting for the documents.
Dispatch_parallel(sl, p) ==
  IF p.query = <<>>
  THEN Return(sl, json([error |-> "Missing 'query' parameter"], 400, sl.cors))
  ELSE IF ~Truthy(env.USE_EXTERNAL_LLM)
  THEN Await([sl EXCEPT !.loc = p], "handleAsk:aiSearch",
             [op |-> "aiSearch",
              params |-> aiSearchParams(env,
                           [query |-> p.query, topK |-> p.topK,
                            threshold |-> p.threshold,
                            stream |-> Bool(p.stream),
                            rewrite |-> Bool(p.rewrite)])])
  ELSE LET started == Await([sl EXCEPT !.loc = p], "handleAsk:search",
                            [op |-> "search", params |-> searchOnlyParams(p)])
       IN [started EXCEPT !.calls =
             Append(@, [op |-> "streamText", provider |-> "openai",
                        messages |-> <<<<>>, p.query>>])]

\* From the normalized fields to the first backend call (lines 108-131).
Dispatch(sl, p) ==
  IF p.query = <<>>
  THEN Return(sl, json([error |-> "Missing 'query' parameter"], 400, sl.cors))
  ELSE IF ~Truthy(env.USE_EXTERNAL_LLM)
  THEN Await([sl EXCEPT !.loc = p], "handleAsk:aiSearch",
             [op |-> "aiSearch",
              params |-> aiSearchParams(env,
                           [query |-> p.query, topK |-> p.topK,
                            threshold |-> p.threshold,
                            stream |-> Bool(p.stream),
                            rewrite |-> Bool(p.rewrite)])])
  ELSE Await([sl EXCEPT !.loc = p], "handleAsk:search",
             [op |-> "search", params |-> searchOnlyParams(p)])

\* Method check and, without a JSON body, the query string.
handleAsk(s) ==
  /\ slot[s].pc = "handleAsk"
  /\ LET req == slot[s].req
         accept == AcceptOf(req)
     IN slot' = [slot EXCEPT ![s] =
          IF req.method # "POST" /\ req.method # "GET"
          THEN Return(@, TextResponse("Method not allowed", 405, @.cors))
          ELSE IF /\ req.method = "POST"
                  /\ ~Nullish(req.contentType)
                  /\ includes(req.contentType.v, <<"j", "s", "o", "n">>)
          THEN Await(@, "handleAsk:json", Call("req.json"))
          ELSE Dispatch(@, NormalizeURL(req, accept, env))]
  /\ UNCHANGED <<env, bucket, now, quota, lastPut>>

\* The JSON body has been read; a body that does not parse counts as {}.
handleAsk_json(s) ==
  /\ slot[s].pc = "handleAsk:json"
  /\ LET req == slot[s].req
         body == IF req.body = Malformed THEN EmptyObj ELSE req.body
     IN slot' = [slot EXCEPT ![s] =
          IF Nullish(body)
          THEN Throw(@, "TypeError")
          ELSE Dispatch(@, NormalizeBody(body, AcceptOf(req), env))]
  /\ UNCHANGED <<env, bucket, now, quota, lastPut>>

\* aiSearch settles: the result is forwarded, as a stream or as JSON.
handleAsk_aiSearch(s) ==
  /\ slot[s].pc = "handleAsk:aiSearch"
  /\ \E answered \in BOOLEAN, result \in AiSearchResults :
       slot' = [slot EXCEPT ![s] =
         IF ~answered
         THEN Return(@, json([error |-> "Search failed",
                              details |-> "AutoRAG error"], 500, @.cors))
         ELSE IF @.loc.stream
         THEN Return([@ EXCEPT !.loc = @ @@ [result |-> result]],
                     [status |-> 200,
                      headers |-> @.cors @@
                                  [ContentType |-> <<"t", "e", "x", "t", "/", "e", "v", "e", "n", "t", "-", "s", "t", "r", "e", "a", "m">>,
                                   CacheControl |-> <<"n", "o", "-", "c", "a", "c", "h", "e">>],
                      body |-> [kind |-> "stream", val |-> result]])
         ELSE Return([@ EXCEPT !.loc = @ @@ [result |-> result]],
                     json(result, 200, @.cors))]
  /\ UNCHANGED <<env, bucket, now, quota, lastPut>>

\* The retrieval-only call settles: no document, or the generation call.
handleAsk_search(s) ==
  /\ slot[s].pc = "handleAsk:search"
  /\ \E answered \in BOOLEAN, searchResult \in SearchResults :
       slot' = [slot EXCEPT ![s] =
         IF ~answered
         THEN Return(@, json([error |-> "Search failed",
                              details |-> "AutoRAG error"], 500, @.cors))
         ELSE IF NoDocuments(searchResult)
         THEN Return([@ EXCEPT !.loc = @ @@ [searchResult |-> searchResult]],
                     json([text |-> <<"N", "o", " ", "r", "e", "l", "e", "v", "a", "n", "t", " ", "i", "n", "f", "o", "r", "m", "a", "t", "i", "o", "n", " ", "f", "o", "u", "n", "d", " ", "f", "o", "r", ":", " ", "\"">>
                                    \o @.loc.query \o <<"\"">>,
                           data |-> <<>>], 200, @.cors))
         ELSE Await([@ EXCEPT !.loc = @ @@ [searchResult |-> searchResult]],
                    "handleAsk:streamText",
                    [op |-> "streamText",
                     provider |-> IF env.USE_EXTERNAL_LLM = Str(<<"o", "p", "e", "n", "a", "i">>)
                                  THEN "openai" ELSE "azure",
                     messages |-> <<Chunks(searchResult.v.data), @.loc.query>>])]
  /\ UNCHANGED <<env, bucket, now, quota, lastPut>>

\* The generation call settles: the token stream, or the text with sources.
handleAsk_streamText(s) ==
  /\ slot[s].pc = "handleAsk:streamText"
  /\ \E generated \in BOOLEAN :
       slot' = [slot EXCEPT ![s] =
         IF ~generated
         THEN Return(@, json([error |-> "Search failed",
                              details |-> "LLM error"], 500, @.cors))
         ELSE IF includes(AcceptOf(@.req), <<"t", "e", "x", "t", "/", "e", "v", "e", "n", "t", "-", "s", "t", "r", "e", "a", "m">>)
         THEN Return(@, [status |-> 200,
                         headers |-> @.cors,
                         body |-> [kind |-> "stream", val |-> <<"g", "e", "n", "e", "r", "a", "t", "e", "d">>]])
         ELSE Return(@, json([text |-> <<"g", "e", "n", "e", "r", "a", "t", "e", "d">>,
                              data |-> @.loc.searchResult.v.data],
                             200, @.cors))]
  /\ UNCHANGED <<env, bucket, now, quota, lastPut>>

(***************************************************************************)
(* handleSearch of the legacy worker.                                      *)
(***************************************************************************)
\* ...(x && { name: x }): the property is added when x is truthy.
WithIf(cond, name, x) == IF cond THEN (name :> x) ELSE [k \in {} |-> x]

\* The parameters handed to the AI binding (lines 111-119).
legacy_bindingParams(body) ==
  WithIf(Truthy(Get(body, "model")), "model", Get(body, "model"))
  @@ WithIf(Truthy(Get(body, "filters")), "filters", Get(body, "filters"))
  @@ WithIf(Truthy(Get(body, "stream")), "stream", Get(body, "stream"))
  @@ [query |-> Get(body, "query"),
      max_num_results |-> OrElse(Get(body, "max_num_results"), Whole(5)),
      rewrite_query |-> Bool(Get(body, "rewrite_query") # Bool(FALSE)),
      ranking_options |-> OrElse(Get(body, "ranking_options"),
                                 Obj([score_threshold |-> Num(30)]))]

\* The JSON body of the REST call (lines 140-148).
legacy_restParams(body) ==
  WithIf(Truthy(Get(body, "max_num_results")), "max_num_results",
         Get(body, "max_num_results"))
  @@ WithIf(Get(body, "rewrite_query") # Undefined, "rewrite_query",
            Get(body, "rewrite_query"))
  @@ WithIf(Truthy(Get(body, "model")), "model", Get(body, "model"))
  @@ WithIf(Truthy(Get(body, "ranking_options")), "ranking_options",
            Get(body, "ranking_options"))
  @@ WithIf(Truthy(Get(body, "filters")), "filters", Get(body, "filters"))
  @@ WithIf(Truthy(Get(body, "stream")), "stream", Get(body, "stream"))
  @@ [query |-> Get(body, "query")]

\* Method check, up to await request.json().
legacy_handleSearch(s) ==
  /\ slot[s].pc = "legacy.handleSearch"
  /\ slot' = [slot EXCEPT ![s] =
       IF @.req.method # "POST"
       THEN Return(@, TextResponse("Method not allowed", 405, @.cors))
       ELSE Await(@, "legacy.handleSearch:json", Call("req.json"))]
  /\ UNCHANGED <<env, bucket, now, quota, lastPut>>

\* From the parsed body to the call of the binding or of the REST API.
legacy_handleSearch_json(s) ==
  /\ slot[s].pc = "legacy.handleSearch:json"
  /\ LET body == slot[s].req.body
         headers == slot[s].cors
         useAiSearch == Get(body, "use_ai_search") # Bool(FALSE)
     IN slot' = [slot EXCEPT ![s] =
          IF body = Malformed
          THEN Throw(@, "SyntaxError")
          ELSE IF Nullish(body)
          THEN Throw(@, "TypeError")
          ELSE IF ~Truthy(Get(body, "query"))
          THEN Return(@, legacy_json([error |-> "Query is required"],
                                     400, headers))
          ELSE IF env.AI
          THEN Await(@, "legacy.handleSearch:binding",
                     [op |-> IF useAiSearch THEN "aiSearch" ELSE "search",
                      params |-> legacy_bindingParams(body)])
          ELSE Await(@, "legacy.handleSearch:rest",
                     [op |-> IF useAiSearch THEN "rest:ai-search"
                             ELSE "rest:search",
                      params |-> legacy_restParams(body)])]
  /\ UNCHANGED <<env, bucket, now, quota, lastPut>>

\* The binding settles: its result is serialized as JSON.
legacy_handleSearch_binding(s) ==
  /\ slot[s].pc = "legacy.handleSearch:binding"
  /\ \E answered \in BOOLEAN :
       slot' = [slot EXCEPT ![s] =
         IF answered
         THEN Return(@, legacy_json(AiSearchResult, 200, @.cors))
         ELSE Return(@, legacy_json([error |-> "Search failed",
                                     details |-> "AutoRAG error"],
                                    500, @.cors))]
  /\ UNCHANGED <<env, bucket, now, quota, lastPut>>

\* What the REST API can answer.
RestReplies ==
  {[kind |-> "network"],
   [kind |-> "response", status |-> 502, parsable |-> TRUE],
   [kind |-> "response", status |-> 200, parsable |-> FALSE],
   [kind |-> "response", status |-> 200, parsable |-> TRUE]}

\* The REST call settles (lines 151-174).
legacy_handleSearch_rest(s) ==
  /\ slot[s].pc = "legacy.handleSearch:rest"
  /\ \E reply \in RestReplies :
       LET headers == slot[s].cors
           body == slot[s].req.body
           failed(details) == legacy_json([error |-> "Search failed",
                                           details |-> details], 500, headers)
       IN slot' = [slot EXCEPT ![s] =
            IF reply.kind = "network"
            THEN Return(@, failed("fetch failed"))
            ELSE IF ~ok(reply.status)
            THEN Return(@, failed("API error: " \o ToString(reply.status)
                                  \o " - upstream text"))
            ELSE IF Truthy(Get(body, "stream"))
            THEN Return(@, [status |-> 200,
                            headers |-> [ContentType |-> <<"t", "e", "x", "t", "/", "e", "v", "e", "n", "t", "-", "s", "t", "r", "e", "a", "m">>,
                                         CacheControl |-> <<"n", "o", "-", "c", "a", "c", "h", "e">>]
                                        @@ headers,
                            body |-> [kind |-> "stream", val |-> AiSearchResult]])
            ELSE IF ~reply.parsable
            THEN Return(@, failed("Unexpected token"))
            ELSE Return(@, legacy_json(AiSearchResult, 200, headers))]
  /\ UNCHANGED <<env, bucket, now, quota, lastPut>>

(***************************************************************************)
(* Tool-Protocol Adapter: NLWebMcp.fetch.                                  *)
(***************************************************************************)
\* The error closure: a JSON-RPC error response with the request's id.
rpcError(id, code, message, corsHeaders) ==
  json([jsonrpc |-> "2.0", id |-> id,
        error |-> [code |-> code, message |-> message]], 200, corsHeaders)

\* The error closure called with data.
rpcErrorData(id, code, message, data, corsHeaders) ==
  json([jsonrpc |-> "2.0", id |-> id,
        error |-> [code |-> code, message |-> message, data |-> data]],
       200, corsHeaders)

\* Variant: || in place of ??, a falsy id is answered as null.
rpcId_or(rpc) == OrElse(Get(rpc, "id"), Null)

\* rpc.id ?? null
rpcId(rpc) == Coalesce(Get(rpc, "id"), Null)

\* Variant: a call without a tool name is taken as a call of "ask".
UnknownTool_named(name) == ~Nullish(name) /\ name # Str(<<"a", "s", "k">>)

\* name !== "ask"
UnknownTool(name) == name # Str(<<"a", "s", "k">>)

\* Variant: the query is trimmed before it is tested.
toolQuery_trimmed(args) == trim(String(OrElse(Get(args, "query"), Str(<<>>))))

\* (args?.query || "").toString()
toolQuery(args) == String(OrElse(Get(args, "query"), Str(<<>>)))

rpcResult(id, result, corsHeaders) ==
  json([jsonrpc |-> "2.0", id |-> id, result |-> result], 200, corsHeaders)

\* Preflight and method check, up to await req.json().
NLWebMcp_fetch(s) ==
  /\ slot[s].pc = "NLWebMcp.fetch"
  /\ LET req == slot[s].req
         corsHeaders == getCorsHeaders(req.origin, env.ALLOWED_ORIGINS)
         sl == [slot[s] EXCEPT !.cors = corsHeaders]
     IN slot' = [slot EXCEPT ![s] =
          IF req.method = "OPTIONS"
          THEN Return(sl, EmptyResponse(204, corsHeaders))
          ELSE IF req.method # "POST"
          THEN Return(sl, TextResponse("Method Not Allowed", 405, corsHeaders))
          ELSE Await(sl, "NLWebMcp.fetch:json", Call("req.json"))]
  /\ UNCHANGED <<env, bucket, now, quota, lastPut>>

\* The switch on rpc.method (lines 245-319).
NLWebMcp_fetch_json(s) ==
  /\ slot[s].pc = "NLWebMcp.fetch:json"
  /\ LET req == slot[s].req
         corsHeaders == slot[s].cors
         rpc == IF req.body = Malformed THEN EmptyObj ELSE req.body
         id == rpcId(rpc)
         method == Get(rpc, "method")
         params == OrElse(Get(rpc, "params"), EmptyObj)
         name == Get(params, "name")
         args == Get(params, "arguments")
         query == toolQuery(args)
         topK == Number(Coalesce(Get(args, "topK"), Whole(6)))
         threshold == Number(Coalesce(Get(args, "threshold"), Num(30)))
         rewrite == Bool(Truthy(Coalesce(Get(args, "rewrite"), Bool(TRUE))))
     IN slot' = [slot EXCEPT ![s] =
          IF Nullish(rpc)
          THEN Throw(@, "TypeError")
          ELSE IF method = Str(<<"i", "n", "i", "t", "i", "a", "l", "i", "z", "e">>)
          THEN Return(@, rpcResult(id, [protocolVersion |-> "2025-06-18",
                                       serverInfo |-> [name |-> "obsidian-docs-autorag",
                                                       version |-> "2.0.0"],
                                       capabilities |-> [tools |-> EmptyObj]],
                                   corsHeaders))
          ELSE IF method = Str(<<"t", "o", "o", "l", "s", "/", "l", "i", "s", "t">>)
          THEN Return(@, rpcResult(id, [tools |-> <<[name |-> "ask",
                                                    required |-> <<"query">>]>>],
                                   corsHeaders))
          ELSE IF method = Str(<<"t", "o", "o", "l", "s", "/", "c", "a", "l", "l">>)
          THEN IF UnknownTool(name)
               THEN Return(@, rpcError(id, -32601, "Unknown tool", corsHeaders))
               ELSE IF query = <<>>
               THEN Return(@, rpcError(id, -32602, "Missing 'query' parameter",
                                       corsHeaders))
               ELSE Await([@ EXCEPT !.loc = [id |-> id]],
                          "NLWebMcp.fetch:aiSearch",
                          [op |-> "aiSearch",
                           params |-> aiSearchParams(env,
                                        [query |-> query, topK |-> topK,
                                         threshold |-> threshold,
                                         stream |-> Bool(FALSE),
                                         rewrite |-> rewrite])])
          ELSE Return(@, rpcError(id, -32601, "Method not found", corsHeaders))]
  /\ UNCHANGED <<env, bucket, now, quota, lastPut>>

\* aiSearch settles: the result is wrapped, an exception becomes -32000.
NLWebMcp_fetch_aiSearch(s) ==
  /\ slot[s].pc = "NLWebMcp.fetch:aiSearch"
  /\ \E answered \in BOOLEAN :
       slot' = [slot EXCEPT ![s] =
         IF answered
         THEN Return([@ EXCEPT !.loc = @ @@ [result |-> AiSearchResult]],
                     rpcResult(@.loc.id, AiSearchResult, @.cors))
         ELSE Return([@ EXCEPT !.loc = @ @@ [e |-> "AutoRAG error"]],
                     rpcErrorData(@.loc.id, -32000, "Server error",
                                  [message |-> "AutoRAG error"], @.cors))]
  /\ UNCHANGED <<env, bucket, now, quota, lastPut>>

(***************************************************************************)
(* SpecAsk: the search endpoints and the tool-protocol endpoint.           *)
(***************************************************************************)
AskEnvs ==
  {DefaultEnv,
   [DefaultEnv EXCEPT !.USE_EXTERNAL_LLM = Str(<<"o", "p", "e", "n", "a", "i">>)],
   [DefaultEnv EXCEPT !.USE_EXTERNAL_LLM = Str(<<"a", "z", "u", "r", "e">>),
                      !.DEFAULT_TOPK = Str(<<"8">>),
                      !.DEFAULT_THRESHOLD = Str(<<"0", ".", "5">>)],
   [DefaultEnv EXCEPT !.DEFAULT_TOPK = Str(<<"8">>),
                      !.DEFAULT_THRESHOLD = Str(<<"0", ".", "5">>),
                      !.STREAM_DEFAULT = Str(<<"t", "r", "u", "e">>)],
   LegacyEnv,
   [LegacyEnv EXCEPT !.AI = FALSE]}

AcceptHeaders == {Null, Str(<<"t", "e", "x", "t", "/", "e", "v", "e", "n", "t", "-", "s", "t", "r", "e", "a", "m">>)}

\* An object with the fields of f that are not left out: Undefined stands
\* for a field the caller did not send.
Fields(f) == Obj([k \in {n \in DOMAIN f : f[n] # Undefined} |-> f[k]])

\* The query field of a search body.
AskQueries == {Undefined, Str(<<>>), Str(<<" ", "\t">>), Str(<<"q">>), Str(<<" ", "q", " ">>)}

\* The other fields of a search body.
AskOptions ==
  {[topK |-> Undefined, threshold |-> Undefined, stream |-> Undefined,
    rewrite |-> Undefined],
   [topK |-> Whole(0), threshold |-> Num(-50), stream |-> Undefined,
    rewrite |-> Undefined],
   [topK |-> Whole(6), threshold |-> Num(30), stream |-> Bool(TRUE),
    rewrite |-> Undefined],
   [topK |-> Whole(999), threshold |-> Whole(2), stream |-> Undefined,
    rewrite |-> Bool(FALSE)],
   [topK |-> Whole(50), threshold |-> Whole(1), stream |-> Str(<<"Y", "E", "S">>),
    rewrite |-> Str(<<"n", "o">>)],
   [topK |-> Whole(1), threshold |-> Whole(0), stream |-> Bool(FALSE),
    rewrite |-> Bool(TRUE)],
   [topK |-> Str(<<"a", "b", "c">>), threshold |-> Str(<<"0", ".", "7">>), stream |-> Str(<<"m", "a", "y", "b", "e">>),
    rewrite |-> Undefined],
   [topK |-> Whole(-3), threshold |-> Undefined, stream |-> Undefined,
    rewrite |-> Undefined]}

AskBodies ==
  {Malformed, Null}
  \cup
  {Fields([query |-> q] @@ o) : q \in AskQueries, o \in AskOptions}

\* Query strings of a search without JSON body.
AskQueryStrings ==
  {Fields(q @@ o) :
     q \in {[q |-> Undefined, query |-> Undefined],
            [q |-> Str(<<"q">>), query |-> Str(<<"r", " ">>)],
            [q |-> Str(<<>>), query |-> Str(<<"r", " ">>)],
            [q |-> Str(<<" ">>), query |-> Undefined]},
     o \in {[topK |-> Undefined, threshold |-> Undefined, stream |-> Undefined,
             rewrite |-> Undefined],
            [topK |-> Str(<<"0">>), threshold |-> Str(<<"-", "0", ".", "5">>), stream |-> Str(<<"o", "n">>),
             rewrite |-> Undefined],
            [topK |-> Str(<<"9", "9", "9">>), threshold |-> Str(<<"2">>), stream |-> Undefined,
             rewrite |-> Str(<<"0">>)],
            [topK |-> Str(<<"1", "2">>), threshold |-> Str(<<"0", ".", "2", "5">>), stream |-> Str(<<"o", "f", "f">>),
             rewrite |-> Str(<<"T", "R", "U", "E">>)],
            [topK |-> Str(<<>>), threshold |-> Str(<<"x">>), stream |-> Str(<<>>),
             rewrite |-> Undefined]}}

SearchRequest(method, pathname, contentType, accept, params, body) ==
  [NoRequest EXCEPT !.method = method, !.pathname = pathname,
                    !.contentType = contentType, !.accept = accept,
                    !.params = params, !.body = body]

JsonType == Str(<<"a", "p", "p", "l", "i", "c", "a", "t", "i", "o", "n", "/", "j", "s", "o", "n">>)

\* Bodies of the legacy search endpoint.
LegacySearchBodies ==
  {Malformed, Null}
  \cup
  {Fields([query |-> q] @@ o) :
     q \in AskQueries,
     o \in {[max_num_results |-> Undefined, ranking_options |-> Undefined,
             stream |-> Undefined, use_ai_search |-> Undefined,
             rewrite_query |-> Undefined],
            [max_num_results |-> Whole(0), ranking_options |-> Undefined,
             stream |-> Bool(TRUE), use_ai_search |-> Undefined,
             rewrite_query |-> Bool(FALSE)],
            [max_num_results |-> Whole(999),
             ranking_options |-> Obj([score_threshold |-> Whole(2)]),
             stream |-> Undefined, use_ai_search |-> Bool(FALSE),
             rewrite_query |-> Bool(TRUE)]}}

RpcIds == {Undefined, Whole(0), Str(<<>>), Str(<<"r", "1">>)}

RpcBodies ==
  {Malformed, Null}
  \cup
  {Fields([id |-> i, method |-> m]) :
     i \in RpcIds,
     m \in {Undefined, Str(<<"i", "n", "i", "t", "i", "a", "l", "i", "z", "e">>), Str(<<"t", "o", "o", "l", "s", "/", "l", "i", "s", "t">>), Str(<<"t", "o", "o", "l", "s", "/", "c", "a", "l", "l">>),
            Str(<<"r", "e", "s", "o", "u", "r", "c", "e", "s", "/", "l", "i", "s", "t">>)}}
  \cup
  {Fields([id |-> i, method |-> Str(<<"t", "o", "o", "l", "s", "/", "c", "a", "l", "l">>),
           params |-> Fields([name |-> n, arguments |-> a])]) :
     i \in {Whole(0), Str(<<"r", "1">>)},
     n \in {Undefined, Str(<<"a", "s", "k">>), Str(<<"s", "e", "a", "r", "c", "h">>)},
     a \in {Undefined,
            EmptyObj,
            Obj([query |-> Str(<<>>)]),
            Obj([query |-> Str(<<"q">>)]),
            Obj([query |-> Str(<<" ">>)]),
            Obj([query |-> Str(<<" ", "q", " ">>), topK |-> Whole(999),
                 threshold |-> Num(-50), rewrite |-> Bool(FALSE)]),
            Obj([query |-> Str(<<"q">>), topK |-> Whole(0),
                 threshold |-> Whole(2)])}}

AskRequests ==
  {SearchRequest("POST", p, JsonType, a, EmptyObj, b) :
     p \in {"/ask"}, a \in AcceptHeaders, b \in AskBodies}
  \cup
  {SearchRequest(m, "/ask", Null, a, qs, Undefined) :
     m \in {"GET", "POST"}, a \in AcceptHeaders, qs \in AskQueryStrings}
  \cup
  {SearchRequest("POST", "/api/autorag-search", JsonType, Null, EmptyObj, b) :
     b \in LegacySearchBodies \cup {Fields([query |-> Str(<<"q">>), topK |-> Whole(999)])}}
  \cup
  {SearchRequest("POST", "/mcp", JsonType, Null, EmptyObj, b) : b \in RpcBodies}
  \cup
  {SearchRequest(m, p, Null, Null, EmptyObj, Undefined) :
     m \in {"PUT", "GET"}, p \in {"/ask", "/api/autorag-search", "/mcp"}}
  \cup
  {SearchRequest("GET", "/index.html", Null, Null, EmptyObj, Undefined)}

InitAsk ==
  /\ env \in AskEnvs
  /\ slot = [s \in 1..1 |-> IdleSlot]
  /\ bucket = EmptyBucket
  /\ lastPut = EmptyBucket
  /\ now = 0
  /\ quota = SeqReqs
  /\ modal = ModalClosed
  /\ script = ScriptIdle

NextAsk ==
  \/ \E s \in DOMAIN slot, r \in AskRequests : Receive(s, r) /\ UNCHANGED clientVars
  \/ \E s \in DOMAIN slot : fetch(s) /\ UNCHANGED clientVars
  \/ \E s \in DOMAIN slot : fetch_assets(s) /\ UNCHANGED clientVars
  \/ \E s \in DOMAIN slot : legacy_fetch(s) /\ UNCHANGED clientVars
  \/ \E s \in DOMAIN slot : handleAsk(s) /\ UNCHANGED clientVars
  \/ \E s \in DOMAIN slot : handleAsk_json(s) /\ UNCHANGED clientVars
  \/ \E s \in DOMAIN slot : handleAsk_aiSearch(s) /\ UNCHANGED clientVars
  \/ \E s \in DOMAIN slot : handleAsk_search(s) /\ UNCHANGED clientVars
  \/ \E s \in DOMAIN slot : handleAsk_streamText(s) /\ UNCHANGED clientVars
  \/ \E s \in DOMAIN slot : legacy_handleSearch(s) /\ UNCHANGED clientVars
  \/ \E s \in DOMAIN slot : legacy_handleSearch_json(s) /\ UNCHANGED clientVars
  \/ \E s \in DOMAIN slot : legacy_handleSearch_binding(s) /\ UNCHANGED clientVars
  \/ \E s \in DOMAIN slot : legacy_handleSearch_rest(s) /\ UNCHANGED clientVars
  \/ \E s \in DOMAIN slot : NLWebMcp_fetch(s) /\ UNCHANGED clientVars
  \/ \E s \in DOMAIN slot : NLWebMcp_fetch_json(s) /\ UNCHANGED clientVars
  \/ \E s \in DOMAIN slot : NLWebMcp_fetch_aiSearch(s) /\ UNCHANGED clientVars

SpecAsk == InitAsk /\ [][NextAsk]_vars

(***************************************************************************)
(* handleStatus of the legacy worker.                                      *)
(***************************************************************************)
\* The basic status object (lines 377-384).
StatusInfo(e, t) ==
  [autorag_name |-> e.AUTORAG_NAME,
   operational |-> TRUE,
   last_check |-> toISOString(t),
   api_configured |-> Truthy(e.API_TOKEN),
   ai_binding_available |-> e.AI,
   ingestion_enabled |-> Truthy(e.INGESTION_TOKEN)]

legacy_handleStatus(s) ==
  /\ slot[s].pc = "legacy.handleStatus"
  /\ slot' = [slot EXCEPT ![s] =
       IF Truthy(env.API_TOKEN) /\ Truthy(env.ACCOUNT_ID)
       THEN Await(@, "legacy.handleStatus:details", Call("rest:details"))
       ELSE Return(@, legacy_json(StatusInfo(env, now), 200, @.cors))]
  /\ UNCHANGED <<env, bucket, now, quota, lastPut>>

\* The details call settles: a failure of it is ignored (lines 395-404).
legacy_handleStatus_details(s) ==
  /\ slot[s].pc = "legacy.handleStatus:details"
  /\ \E reply \in RestReplies :
       slot' = [slot EXCEPT ![s] =
         IF reply.kind = "response" /\ ok(reply.status) /\ reply.parsable
         THEN Return(@, legacy_json(StatusInfo(env, now)
                                    @@ [autorag_details |-> "details"],
                                    200, @.cors))
         ELSE Return(@, legacy_json(StatusInfo(env, now), 200, @.cors))]
  /\ UNCHANGED <<env, bucket, now, quota, lastPut>>

(***************************************************************************)
(* SpecCors: every route of both workers, one request per behaviour, under *)
(* the origins and allow-lists of the CORS Policy Evaluator.               *)
(***************************************************************************)
Origins == {Null, Str(<<"h", "t", "t", "p", "s", ":", "/", "/", "a", ".", "e", "x", "a", "m", "p", "l", "e">>), Str(<<"h", "t", "t", "p", "s", ":", "/", "/", "e", "v", "i", "l", ".", "e", "x", "a", "m", "p", "l", "e">>)}

AllowLists ==
  {Undefined,
   Str(<<"*">>),
   Str(<<"h", "t", "t", "p", "s", ":", "/", "/", "a", ".", "e", "x", "a", "m", "p", "l", "e", ",", " ", "h", "t", "t", "p", "s", ":", "/", "/", "b", ".", "e", "x", "a", "m", "p", "l", "e">>),
   Str(<<"h", "t", "t", "p", "s", ":", "/", "/", "b", ".", "e", "x", "a", "m", "p", "l", "e", ",", "*">>)}

CorsEnvs ==
  {[e EXCEPT !.ALLOWED_ORIGINS = a] :
     a \in AllowLists,
     e \in {[DefaultEnv EXCEPT !.INGESTION_TOKEN = Str(Token)],
            [DefaultEnv EXCEPT !.DOCS_BUCKET = FALSE],
            [DefaultEnv EXCEPT !.USE_EXTERNAL_LLM = Str(<<"o", "p", "e", "n", "a", "i">>)],
            [LegacyEnv EXCEPT !.INGESTION_TOKEN = Str(Token)],
            [LegacyEnv EXCEPT !.AI = FALSE],
            [LegacyEnv EXCEPT !.API_TOKEN = Undefined, !.MY_BROWSER = FALSE,
                              !.ALLOWED_RENDER_HOSTS = Str(<<"o", "k", ".", "e", "x", "a", "m", "p", "l", "e">>)]}}

Routes ==
  {"/ask", "/mcp", "/api/ingest", "/api/autorag-search", "/api/sync",
   "/api/render-ingest", "/api/status", "/index.html"}

CorsRequests ==
  {[r EXCEPT !.origin = o] :
     o \in Origins,
     r \in IngestRequests \cup AskRequests
           \cup {Request(m, p, AuthAbsent, Undefined) :
                   m \in {"OPTIONS", "GET"}, p \in Routes}}

InitCors ==
  /\ env \in CorsEnvs
  /\ slot = [s \in 1..1 |-> IdleSlot]
  /\ bucket = EmptyBucket
  /\ lastPut = EmptyBucket
  /\ now = 0
  /\ quota = CorsReqs
  /\ modal = ModalClosed
  /\ script = ScriptIdle

NextCors ==
  \/ \E s \in DOMAIN slot, r \in CorsRequests : Receive(s, r) /\ UNCHANGED clientVars
  \/ \E s \in DOMAIN slot : fetch(s) /\ UNCHANGED clientVars
  \/ \E s \in DOMAIN slot : fetch_assets(s) /\ UNCHANGED clientVars
  \/ \E s \in DOMAIN slot : legacy_fetch(s) /\ UNCHANGED clientVars
  \/ \E s \in DOMAIN slot : handleIngestion(s) /\ UNCHANGED clientVars
  \/ \E s \in DOMAIN slot : handleIngestion_json(s) /\ UNCHANGED clientVars
  \/ \E s \in DOMAIN slot : handleIngestion_put(s) /\ UNCHANGED clientVars
  \/ \E s \in DOMAIN slot : legacy_handleIngestion(s) /\ UNCHANGED clientVars
  \/ \E s \in DOMAIN slot : legacy_handleIngestion_json(s) /\ UNCHANGED clientVars
  \/ \E s \in DOMAIN slot : legacy_handleIngestion_put(s) /\ UNCHANGED clientVars
  \/ \E s \in DOMAIN slot : legacy_handleIngestion_sync(s) /\ UNCHANGED clientVars
  \/ \E s \in DOMAIN slot : legacy_handleSync(s) /\ UNCHANGED clientVars
  \/ \E s \in DOMAIN slot : legacy_handleSync_sync(s) /\ UNCHANGED clientVars
  \/ \E s \in DOMAIN slot : legacy_handleRenderAndIngest(s) /\ UNCHANGED clientVars
  \/ \E s \in DOMAIN slot : legacy_handleRenderAndIngest_json(s) /\ UNCHANGED clientVars
  \/ \E s \in DOMAIN slot : legacy_handleRenderAndIngest_render(s) /\ UNCHANGED clientVars
  \/ \E s \in DOMAIN slot : legacy_handleRenderAndIngest_put(s) /\ UNCHANGED clientVars
  \/ \E s \in DOMAIN slot : legacy_handleRenderAndIngest_sync(s) /\ UNCHANGED clientVars
  \/ \E s \in DOMAIN slot : legacy_handleStatus(s) /\ UNCHANGED clientVars
  \/ \E s \in DOMAIN slot : legacy_handleStatus_details(s) /\ UNCHANGED clientVars
  \/ \E s \in DOMAIN slot : handleAsk(s) /\ UNCHANGED clientVars
  \/ \E s \in DOMAIN slot : handleAsk_json(s) /\ UNCHANGED clientVars
  \/ \E s \in DOMAIN slot : handleAsk_aiSearch(s) /\ UNCHANGED clientVars
  \/ \E s \in DOMAIN slot : handleAsk_search(s) /\ UNCHANGED clientVars
  \/ \E s \in DOMAIN slot : handleAsk_streamText(s) /\ UNCHANGED clientVars
  \/ \E s \in DOMAIN slot : legacy_handleSearch(s) /\ UNCHANGED clientVars
  \/ \E s \in DOMAIN slot : legacy_handleSearch_json(s) /\ UNCHANGED clientVars
  \/ \E s \in DOMAIN slot : legacy_handleSearch_binding(s) /\ UNCHANGED clientVars
  \/ \E s \in DOMAIN slot : legacy_handleSearch_rest(s) /\ UNCHANGED clientVars
  \/ \E s \in DOMAIN slot : NLWebMcp_fetch(s) /\ UNCHANGED clientVars
  \/ \E s \in DOMAIN slot : NLWebMcp_fetch_json(s) /\ UNCHANGED clientVars
  \/ \E s \in DOMAIN slot : NLWebMcp_fetch_aiSearch(s) /\ UNCHANGED clientVars

SpecCors == InitCors /\ [][NextCors]_vars

(***************************************************************************)
(* SpecModal: the search modal of AutoRAGSearch.vue, its handlers and the  *)
(* settling of its requests in any order.                                  *)
(***************************************************************************)
\* What the user can type into the search box.
TypedQueries == {<<>>, <<" ">>, <<"q">>, <<"r">>, <<" ", "q">>, <<"q", " ">>, <<"q", "r">>}

\* keydown events: [ctrlKey, metaKey, key].
KeyEvents ==
  {[ctrlKey |-> TRUE, metaKey |-> FALSE, key |-> "k"],
   [ctrlKey |-> FALSE, metaKey |-> TRUE, key |-> "k"],
   [ctrlKey |-> FALSE, metaKey |-> FALSE, key |-> "k"],
   [ctrlKey |-> FALSE, metaKey |-> FALSE, key |-> "Escape"],
   [ctrlKey |-> TRUE, metaKey |-> FALSE, key |-> "Escape"]}

\* err.message of a rejected fetch() or response.json().
ErrorMessages == {<<>>, <<"F", "a", "i", "l", "e", "d", " ", "t", "o", " ", "f", "e", "t", "c", "h">>, <<"U", "n", "e", "x", "p", "e", "c", "t", "e", "d", " ", "t", "o", "k", "e", "n">>}

\* response.statusText of an answer that is not ok.
StatusTexts == {<<>>, <<"B", "a", "d", " ", "G", "a", "t", "e", "w", "a", "y">>, <<"N", "o", "t", " ", "F", "o", "u", "n", "d">>}

\* The documents response.json() can resolve to: an answer with sources, an
\* answer without any, sources without an answer.
ResponseData == AiSearchResults \cup {Obj([data |-> <<Doc>>])}

\* The sequence seq without its element at position i.
RemoveAt(seq, i) == SubSeq(seq, 1, i - 1) \o SubSeq(seq, i + 1, Len(seq))

\* catch and finally of performSearch (lines 119-124), for the search at i.
performSearch_catch(m, i, message) ==
  [m EXCEPT !.error = IF message = <<>>
                      THEN Str(<<"A", "n", " ", "e", "r", "r", "o", "r", " ", "o", "c", "c", "u", "r", "r", "e", "d", " ", "w", "h", "i", "l", "e", " ", "s", "e", "a", "r", "c", "h", "i", "n", "g">>)
                      ELSE Str(message),
            !.loading = FALSE,
            !.searches = RemoveAt(@, i)]

\* @click="showModal = true" of the search button (line 3).
searchButton_click ==
  /\ modal' = [modal EXCEPT !.showModal = TRUE]
  /\ UNCHANGED <<workerVars, script>>

\* v-model="searchQuery" of the input, which is rendered while the modal is
\* shown and disabled while loading (lines 15-22).
searchInput_input(text) ==
  /\ modal.showModal
  /\ ~modal.loading
  /\ modal' = [modal EXCEPT !.searchQuery = text]
  /\ UNCHANGED <<workerVars, script>>

\* Variant: a search starts whether or not another one is loading.
performSearch_unguarded ==
  /\ modal.showModal
  /\ Len(modal.searches) < MaxSearches
  /\ modal' =
       IF trim(modal.searchQuery) = <<>>
       THEN modal
       ELSE [modal EXCEPT !.loading = TRUE,
                          !.error = Null,
                          !.results = Null,
                          !.searches = Append(@, [query |-> modal.searchQuery,
                                                  pc |-> "fetch"])]
  /\ UNCHANGED <<workerVars, script>>

\* performSearch up to await fetch() (lines 93-111), from the Enter key in
\* the input or a click on the submit button of the shown modal.
performSearch ==
  /\ modal.showModal
  /\ Len(modal.searches) < MaxSearches
  /\ modal' =
       IF trim(modal.searchQuery) = <<>> \/ modal.loading
       THEN modal
       ELSE [modal EXCEPT !.loading = TRUE,
                          !.error = Null,
                          !.results = Null,
                          !.searches = Append(@, [query |-> modal.searchQuery,
                                                  pc |-> "fetch"])]
  /\ UNCHANGED <<workerVars, script>>

\* fetch() of the search at i settles: rejected, answered not ok (lines
\* 113-115), or answered ok and on to await response.json().
performSearch_fetch(i) ==
  /\ modal.searches[i].pc = "fetch"
  /\ \/ \E message \in ErrorMessages :
          modal' = performSearch_catch(modal, i, message)
     \/ \E statusText \in StatusTexts :
          modal' = performSearch_catch(modal, i,
                     <<"S", "e", "a", "r", "c", "h", " ", "f", "a", "i", "l", "e", "d", ":", " ">> \o statusText)
     \/ modal' = [modal EXCEPT !.searches[i].pc = "json"]
  /\ UNCHANGED <<workerVars, script>>

\* response.json() of the search at i settles (lines 117-124).
performSearch_json(i) ==
  /\ modal.searches[i].pc = "json"
  /\ \/ \E data \in ResponseData :
          modal' = [modal EXCEPT !.results = data,
                                 !.loading = FALSE,
                                 !.searches = RemoveAt(@, i)]
     \/ \E message \in ErrorMessages :
          modal' = performSearch_catch(modal, i, message)
  /\ UNCHANGED <<workerVars, script>>

\* closeModal as a function of the refs (lines 137-142).
closeModal_refs(m) ==
  [m EXCEPT !.showModal = FALSE,
            !.searchQuery = <<>>,
            !.results = Null,
            !.error = Null]

\* closeModal from a click on the overlay or on the Close button of the
\* shown modal (lines 12, 67).
closeModal ==
  /\ modal.showModal
  /\ modal' = closeModal_refs(modal)
  /\ UNCHANGED <<workerVars, script>>

\* handleKeydown, the keydown listener of the document (lines 144-157).
handleKeydown(e) ==
  /\ LET opened == IF (e.ctrlKey \/ e.metaKey) /\ e.key = "k"
                   THEN [modal EXCEPT !.showModal = TRUE]
                   ELSE modal
     IN modal' = IF e.key = "Escape" /\ opened.showModal
                 THEN closeModal_refs(opened)
                 ELSE opened
  /\ UNCHANGED <<workerVars, script>>

InitModal ==
  /\ env = DefaultEnv
  /\ slot = [s \in 1..1 |-> IdleSlot]
  /\ bucket = EmptyBucket
  /\ lastPut = EmptyBucket
  /\ now = 0
  /\ quota = 0
  /\ modal = ModalClosed
  /\ script = ScriptIdle

NextModal ==
  \/ searchButton_click
  \/ \E text \in TypedQueries : searchInput_input(text)
  \/ performSearch
  \/ \E i \in DOMAIN modal.searches : performSearch_fetch(i)
  \/ \E i \in DOMAIN modal.searches : performSearch_json(i)
  \/ closeModal
  \/ \E e \in KeyEvents : handleKeydown(e)

SpecModal == InitModal /\ [][NextModal]_vars

(***************************************************************************)
(* SpecScript: main of ingest-docs.js, the calls of ingestFile of a batch  *)
(* settling in any order.                                                  *)
(***************************************************************************)
\* const BATCH_SIZE = 5
BATCH_SIZE == 5

\* The values of MAX_FILES: unset, or a limit.
MaxFilesSettings == {0, BATCH_SIZE + 1}

\* The positions of a call of ingestFile that has settled.
Settled == {"fulfilled", "rejected"}

\* files.slice(i, i + BATCH_SIZE), as positions 1..files.
Batch(sc) == {f \in 1..sc.files : sc.i < f /\ f <= sc.i + BATCH_SIZE}

\* Variant: main goes on as soon as one call of the batch has settled.
BatchSettled_any(sc) == \E f \in Batch(sc) : sc.task[f] \in Settled

\* Promise.allSettled of the batch has resolved.
BatchSettled(sc) == \A f \in Batch(sc) : sc.task[f] \in Settled

\* results.filter(r => r.status === status).length
Count(results, status) ==
  Cardinality({k \in 1..Len(results) : results[k] = status})

\* process.exit(code)
Exit(sc, code) == [sc EXCEPT !.pc = "exited", !.exitCode = code]

\* failed > 0 ? 1 : 0
FailedCode(sc) == IF Count(sc.results, "rejected") > 0 THEN 1 ELSE 0

\* The summary and the final sync request (lines 146-172).
Summary(sc) ==
  IF Count(sc.results, "fulfilled") > 0 /\ ~sc.DRY_RUN
  THEN [sc EXCEPT !.pc = "sync", !.syncRequests = @ + 1]
  ELSE Exit(sc, FailedCode(sc))

\* The test of the for loop and the start of a batch: every ingestFile of
\* the batch runs up to its await readFile() (lines 133-137, 69-71).
Loop(sc) ==
  IF sc.i < sc.files
  THEN [sc EXCEPT !.pc = "allSettled",
                  !.task = [f \in 1..sc.files |->
                              IF f \in Batch(sc) THEN "readFile" ELSE @[f]]]
  ELSE Summary(sc)

\* main up to await getMarkdownFiles() (lines 114-122).
main ==
  /\ script.pc = "main"
  /\ script' = [script EXCEPT !.pc = "getMarkdownFiles"]
  /\ UNCHANGED <<workerVars, modal>>

\* getMarkdownFiles settles: the walk fails, or it finds some files, which
\* MAX_FILES limits, and the first batch starts (lines 122-137).
main_getMarkdownFiles ==
  /\ script.pc = "getMarkdownFiles"
  /\ \/ script' = Exit(script, 1)
     \/ \E found \in 0..MaxFound :
          LET files == IF script.MAX_FILES > 0 /\ found > script.MAX_FILES
                       THEN script.MAX_FILES ELSE found
          IN script' = Loop([script EXCEPT !.files = files,
                                           !.i = 0,
                                           !.task = [f \in 1..files |-> "pending"]])
  /\ UNCHANGED <<workerVars, modal>>

\* readFile of file f settles: an error, the dry-run return, or the ingest
\* request (lines 71-95).
ingestFile_readFile(f) ==
  /\ script.task[f] = "readFile"
  /\ \/ script' = [script EXCEPT !.task[f] = "rejected"]
     \/ script' = IF script.DRY_RUN
                  THEN [script EXCEPT !.task[f] = "fulfilled"]
                  ELSE [script EXCEPT !.task[f] = "fetch",
                                      !.ingestRequests = @ \cup {f}]
  /\ UNCHANGED <<workerVars, modal>>

\* fetch of file f settles: a network error, an answer that is not ok, an
\* answer that is ok (lines 80-102).
ingestFile_fetch(f) ==
  /\ script.task[f] = "fetch"
  /\ \E next \in {"rejected", "text", "json"} :
       script' = [script EXCEPT !.task[f] = next]
  /\ UNCHANGED <<workerVars, modal>>

\* response.text() of a failed answer settles: ingestFile throws (lines
\* 97-100, 105-108).
ingestFile_text(f) ==
  /\ script.task[f] = "text"
  /\ script' = [script EXCEPT !.task[f] = "rejected"]
  /\ UNCHANGED <<workerVars, modal>>

\* response.json() settles (lines 102-108).
ingestFile_json(f) ==
  /\ script.task[f] = "json"
  /\ \E next \in Settled :
       script' = [script EXCEPT !.task[f] = next]
  /\ UNCHANGED <<workerVars, modal>>

\* Promise.allSettled resolves: the results are pushed, then the delay or
\* the end of the loop (lines 135-144).
main_allSettled ==
  /\ script.pc = "allSettled"
  /\ BatchSettled(script)
  /\ LET last == IF script.i + BATCH_SIZE < script.files
                 THEN script.i + BATCH_SIZE ELSE script.files
         pushed == [script EXCEPT !.results =
                      @ \o [k \in 1..(last - script.i) |-> script.task[script.i + k]]]
     IN script' = IF script.i + BATCH_SIZE < script.files
                  THEN [pushed EXCEPT !.pc = "delay"]
                  ELSE Loop([pushed EXCEPT !.i = @ + BATCH_SIZE])
  /\ UNCHANGED <<workerVars, modal>>

\* The delay is over: the next turn of the loop (lines 133, 142).
main_delay ==
  /\ script.pc = "delay"
  /\ script' = Loop([script EXCEPT !.i = @ + BATCH_SIZE])
  /\ UNCHANGED <<workerVars, modal>>

\* fetch of /api/sync settles: a network error goes to the catch, an answer
\* that is ok to the exit, another one to await syncResponse.text() (lines
\* 158-176).
main_sync ==
  /\ script.pc = "sync"
  /\ \/ script' = Exit(script, 1)
     \/ script' = Exit(script, FailedCode(script))
     \/ script' = [script EXCEPT !.pc = "sync:text"]
  /\ UNCHANGED <<workerVars, modal>>

\* syncResponse.text() settles (lines 168-176).
main_syncText ==
  /\ script.pc = "sync:text"
  /\ \/ script' = Exit(script, FailedCode(script))
     \/ script' = Exit(script, 1)
  /\ UNCHANGED <<workerVars, modal>>

InitScript ==
  /\ env = DefaultEnv
  /\ slot = [s \in 1..1 |-> IdleSlot]
  /\ bucket = EmptyBucket
  /\ lastPut = EmptyBucket
  /\ now = 0
  /\ quota = 0
  /\ modal = ModalClosed
  /\ script \in {[ScriptIdle EXCEPT !.DRY_RUN = dry, !.MAX_FILES = max] :
                   dry \in BOOLEAN, max \in MaxFilesSettings}

NextScript ==
  \/ main
  \/ main_getMarkdownFiles
  \/ \E f \in DOMAIN script.task : ingestFile_readFile(f)
  \/ \E f \in DOMAIN script.task : ingestFile_fetch(f)
  \/ \E f \in DOMAIN script.task : ingestFile_text(f)
  \/ \E f \in DOMAIN script.task : ingestFile_json(f)
  \/ main_allSettled
  \/ main_delay
  \/ main_sync
  \/ main_syncText

SpecScript == InitScript /\ [][NextScript]_vars


(***************************************************************************)
(* Properties of the ingest, sync and render-ingest endpoints.             *)
(***************************************************************************)
Slots == DOMAIN slot

\* The handler of slot s has got past its first stretch of code.
Handled(sl) ==
  sl.pc \notin {"idle", "fetch", "handleIngestion", "legacy.handleIngestion",
                "legacy.handleSync", "legacy.handleRenderAndIngest"}

\* POST /api/ingest of either worker, POST /api/sync of the legacy worker.
IngestOrSync(sl) ==
  /\ sl.req.method = "POST"
  /\ \/ sl.req.pathname = "/api/ingest"
     \/ env.variant = "legacy" /\ sl.req.pathname = "/api/sync"

HeaderAbsent(sl) == sl.req.authorization = Null

HeaderWrongScheme(sl) ==
  /\ sl.req.authorization.t = "string"
  /\ ~startsWith(sl.req.authorization.v, <<"B", "e", "a", "r", "e", "r", " ">>)

HeaderMismatch(sl) ==
  /\ sl.req.authorization.t = "string"
  /\ startsWith(sl.req.authorization.v, <<"B", "e", "a", "r", "e", "r", " ">>)
  /\ SubSeq(sl.req.authorization.v, 8, Len(sl.req.authorization.v))
       # env.INGESTION_TOKEN.v

Is401(sl) ==
  /\ sl.pc = "done"
  /\ sl.resp.status = 401
  /\ sl.resp.body = [kind |-> "text", text |-> "Unauthorized"]

\* C1: with an ingestion token configured, a POST to /api/ingest or
\* /api/sync whose Authorization header is absent, has a scheme other than
\* Bearer, or carries another token is answered 401 Unauthorized.
C1_BadAuthIs401 ==
  \A s \in Slots :
    LET sl == slot[s]
    IN (/\ Truthy(env.INGESTION_TOKEN)
        /\ IngestOrSync(sl)
        /\ HeaderAbsent(sl) \/ HeaderWrongScheme(sl) \/ HeaderMismatch(sl)
        /\ Handled(sl))
       => Is401(sl)

\* A request with a Basic header for the right secret was refused.
C1_Witness ==
  \E s \in Slots :
    /\ Truthy(env.INGESTION_TOKEN)
    /\ IngestOrSync(slot[s])
    /\ HeaderWrongScheme(slot[s])
    /\ Is401(slot[s])

\* C2: a request that ends in 401 has issued no call at all: the body was
\* not read, nothing was written to the blob store, no re-index and no
\* render was requested.
C2_NoWorkBefore401 ==
  \A s \in Slots :
    (slot[s].pc = "done" /\ slot[s].resp.status = 401)
      => /\ slot[s].calls = <<>>
         /\ \A k \in DOMAIN lastPut : lastPut[k].id # slot[s].id

\* A render-ingest request was refused with 401.
C2_Witness ==
  \E s \in Slots :
    /\ slot[s].req.pathname = "/api/render-ingest"
    /\ slot[s].req.body # Malformed
    /\ Is401(slot[s])

\* The body of an ingest request has a path and a content.
WellFormed(body) ==
  /\ body.t = "object"
  /\ Truthy(Get(body, "path"))
  /\ Truthy(Get(body, "content"))

\* The response that reports a failure of the blob store.
StoreFailure(resp) ==
  /\ resp.status = 500
  /\ resp.body.kind = "json"
  /\ resp.body.val.error \in {"R2 bucket not configured", "Ingestion failed"}

IngestSuccess(resp) ==
  /\ resp.status = 200
  /\ resp.body.kind = "json"
  /\ resp.body.val.success = TRUE

\* C3: with no ingestion token configured, a POST /api/ingest with path and
\* content is never answered 401 and never throws, whatever its
\* Authorization header: it succeeds unless the blob store fails.
C3_OpenWithoutToken ==
  \A s \in Slots :
    LET sl == slot[s]
    IN (/\ ~Truthy(env.INGESTION_TOKEN)
        /\ sl.req.method = "POST"
        /\ sl.req.pathname = "/api/ingest"
        /\ WellFormed(sl.req.body))
       => /\ sl.pc # "threw"
          /\ sl.pc = "done" =>
               /\ sl.resp.status # 401
               /\ IngestSuccess(sl.resp) \/ StoreFailure(sl.resp)

\* Without a token, an ingest with a wrong-scheme header succeeded.
C3_Witness ==
  \E s \in Slots :
    /\ ~Truthy(env.INGESTION_TOKEN)
    /\ slot[s].req.pathname = "/api/ingest"
    /\ HeaderWrongScheme(slot[s])
    /\ slot[s].pc = "done"
    /\ IngestSuccess(slot[s].resp)

\* The source tags the workers write.
SystemSources == {<<"a", "p", "i", "-", "i", "n", "g", "e", "s", "t", "i", "o", "n">>, <<"c", "o", "n", "t", "i", "n", "u", "o", "u", "s", "-", "i", "n", "g", "e", "s", "t", "i", "o", "n">>, <<"b", "r", "o", "w", "s", "e", "r", "-", "r", "e", "n", "d", "e", "r">>}

\* C4: the source and the timestamp stored with a blob are the system's,
\* also when the caller's metadata has the keys source or timestamp.
C4_SystemFieldsWin ==
  \A k \in DOMAIN bucket :
    /\ bucket[k].customMetadata.source \in SystemSources
    /\ bucket[k].customMetadata.timestamp \in {toISOString(t) : t \in 0..now}

\* The slot was handling an ingest request when it wrote.
IngestWriter(w) == w.req.pathname = "/api/ingest"

\* C5: under every key, the blob store holds exactly the content, content
\* type and metadata that the ingest request whose write came last asked
\* to store under that key; keys no request wrote to are absent, and every
\* ingest response is either the success or the store's failure.
C5_LastWriteWins ==
  /\ DOMAIN bucket = DOMAIN lastPut
  /\ \A k \in DOMAIN bucket :
       LET w == lastPut[k]
       IN /\ StorageKey(Get(w.req.body, "path").v) = k
          /\ bucket[k].content = Get(w.req.body, "content")
          /\ bucket[k] = w.loc.blob
  /\ \A s \in Slots :
       slot[s].pc = "done" =>
         IngestSuccess(slot[s].resp) \/ StoreFailure(slot[s].resp)

\* A request that had written its blob under a key got success, and the key
\* now holds the blob of a later request with other content.
C5_Witness ==
  \E s \in Slots :
    /\ slot[s].pc = "done"
    /\ IngestSuccess(slot[s].resp)
    /\ slot[s].loc.key \in DOMAIN bucket
    /\ bucket[slot[s].loc.key].content # slot[s].loc.blob.content
    /\ lastPut[slot[s].loc.key].id # slot[s].id

\* The path of the request as the caller gave it.
WriterPath(w) == Get(w.req.body, "path").v

\* C6 as stated: the stored content type is the content_type field whenever
\* the body has that field, else text/html when the path ends in ".html",
\* else text/markdown.
C6_ContentTypeAsStated ==
  \A k \in DOMAIN bucket :
    LET w == lastPut[k]
    IN IngestWriter(w) =>
         bucket[k].httpMetadata.contentType =
           IF "content_type" \in DOMAIN w.req.body.v
           THEN w.req.body.v.content_type
           ELSE IF endsWith(WriterPath(w), <<".", "h", "t", "m", "l">>)
           THEN Str(<<"t", "e", "x", "t", "/", "h", "t", "m", "l">>) ELSE Str(<<"t", "e", "x", "t", "/", "m", "a", "r", "k", "d", "o", "w", "n">>)

\* C6, amended: the stored content type is the content_type field whenever
\* the body has that field with a value other than null (the empty string
\* included); else it is text/html when the path ends in ".html" in any
\* letter case, else text/markdown.
C6_ContentType ==
  \A k \in DOMAIN bucket :
    LET w == lastPut[k]
        supplied == /\ "content_type" \in DOMAIN w.req.body.v
                    /\ w.req.body.v.content_type # Null
        p == WriterPath(w)
        suffix == SubSeq(p, Len(p) - 4, Len(p))
        html == /\ Len(p) >= 5
                /\ suffix[1] = "."
                /\ suffix[2] \in {"h", "H"}
                /\ suffix[3] \in {"t", "T"}
                /\ suffix[4] \in {"m", "M"}
                /\ suffix[5] \in {"l", "L"}
    IN IngestWriter(w) =>
         bucket[k].httpMetadata.contentType =
           IF supplied THEN w.req.body.v.content_type
           ELSE IF html THEN Str(<<"t", "e", "x", "t", "/", "h", "t", "m", "l">>) ELSE Str(<<"t", "e", "x", "t", "/", "m", "a", "r", "k", "d", "o", "w", "n">>)

\* A blob ingested under a path ending in ".HTML" is stored as text/html.
C6_Witness ==
  \E k \in DOMAIN bucket :
    /\ IngestWriter(lastPut[k])
    /\ WriterPath(lastPut[k]) = <<"B", ".", "H", "T", "M", "L">>
    /\ bucket[k].httpMetadata.contentType = Str(<<"t", "e", "x", "t", "/", "h", "t", "m", "l">>)

(***************************************************************************)
(* Properties of the search endpoints.                                     *)
(***************************************************************************)
\* The calls to the retrieval backend that the request of slot sl issued.
BackendCalls(sl) ==
  {sl.calls[i] : i \in {j \in 1..Len(sl.calls) :
                          sl.calls[j].op \in {"aiSearch", "search"}}}

\* C7: the result count passed to the retrieval backend by the unified
\* worker lies in [1, 50] for every numeric topK, on every dispatch path.
C7_TopKClamped ==
  \A s \in Slots :
    env.variant = "v2" =>
      \A c \in BackendCalls(slot[s]) :
        c.params.max_num_results # NaN =>
          /\ c.params.max_num_results.v >= 100 * 1
          /\ c.params.max_num_results.v <= 100 * 50

\* C8: the score threshold passed to the retrieval backend by the unified
\* worker lies in [0, 1] for every numeric threshold, on every dispatch path.
C8_ThresholdClamped ==
  \A s \in Slots :
    env.variant = "v2" =>
      \A c \in BackendCalls(slot[s]) :
        c.params.ranking_options.score_threshold # NaN =>
          /\ c.params.ranking_options.score_threshold.v >= 100 * 0
          /\ c.params.ranking_options.score_threshold.v <= 100 * 1

\* The query a POST to a search endpoint carries: the body's query field
\* under a JSON content type, else the q or query parameter of the URL.
PostedQuery(req) ==
  IF ~Nullish(req.contentType) /\ includes(req.contentType.v, <<"j", "s", "o", "n">>)
  THEN Get(req.body, "query")
  ELSE OrElse(SearchParam(req, "q"), SearchParam(req, "query"))

\* The request is a POST to a search endpoint of the deployed worker, with a
\* body that parses to an object when it is JSON.
SearchPost(req) ==
  /\ req.method = "POST"
  /\ \/ req.pathname = "/api/autorag-search"
     \/ env.variant = "v2" /\ req.pathname = "/ask"
  /\ (~Nullish(req.contentType)) => req.body.t = "object"

BlankQuery(req) ==
  /\ PostedQuery(req).t = "string"
  /\ trim(PostedQuery(req).v) = <<>>

\* C9: a POST to a search endpoint whose query is empty or only whitespace
\* is answered 400 and no backend or LLM call is made for it.
C9_BlankQueryIs400 ==
  \A s \in Slots :
    LET sl == slot[s]
    IN (/\ SearchPost(sl.req)
        /\ BlankQuery(sl.req)
        /\ sl.pc \notin {"fetch", "handleAsk", "handleAsk:json",
                         "legacy.handleSearch", "legacy.handleSearch:json"})
       => /\ sl.pc = "done"
          /\ sl.resp.status = 400
          /\ \A i \in 1..Len(sl.calls) : sl.calls[i].op = "req.json"

\* The retrieval-only call of slot sl returned no document.
ZeroDocuments(sl) ==
  /\ sl.req.pathname \in {"/ask", "/api/autorag-search"}
  /\ "searchResult" \in DOMAIN sl.loc
  /\ \/ sl.loc.searchResult = Undefined
     \/ sl.loc.searchResult = Null
     \/ "data" \notin DOMAIN sl.loc.searchResult.v
     \/ sl.loc.searchResult.v.data = <<>>

\* C10: in external-LLM mode, a retrieval that returns no document (or no
\* data) is answered 200 with the fixed "No relevant information found"
\* text and an empty source list, and the external LLM is not called.
C10_NoDocumentsShortCircuit ==
  \A s \in Slots :
    LET sl == slot[s]
    IN (Truthy(env.USE_EXTERNAL_LLM) /\ ZeroDocuments(sl))
       => /\ sl.pc = "done"
          /\ sl.resp.status = 200
          /\ sl.resp.body =
               [kind |-> "json",
                val |-> [text |-> <<"N", "o", " ", "r", "e", "l", "e", "v", "a", "n", "t", " ", "i", "n", "f", "o", "r", "m", "a", "t", "i", "o", "n", " ", "f", "o", "u", "n", "d", " ", "f", "o", "r", ":", " ", "\"">>
                                  \o sl.loc.query \o <<"\"">>,
                         data |-> <<>>]]
          /\ \A i \in 1..Len(sl.calls) : sl.calls[i].op # "streamText"

\* The retrieval returned an empty list of documents and was answered.
C10_Witness ==
  \E s \in Slots :
    /\ Truthy(env.USE_EXTERNAL_LLM)
    /\ ZeroDocuments(slot[s])
    /\ slot[s].loc.searchResult = Obj([data |-> <<>>])
    /\ slot[s].pc = "done"

(***************************************************************************)
(* Properties of the Sync Trigger.                                         *)
(***************************************************************************)
\* The sync call of slot sl has settled.
SyncDone(sl) == "syncReply" \in DOMAIN sl.loc

IsTriggered(o) == DOMAIN o = {"success", "result"}

IsSkipped(o) == DOMAIN o = {"skipped", "reason"} /\ o.skipped = TRUE

IsFailed(o) == DOMAIN o = {"error", "message"} /\ o.error = TRUE

\* The upstream call ended in an exception or in a non-2xx status that is
\* not a cooldown, and the message the failure is expected to carry.
UpstreamFailure(reply) ==
  \/ reply.kind = "network"
  \/ reply.kind = "response" /\ reply.status \notin {429, 409}
     /\ (~ok(reply.status) \/ ~reply.parsable)

FailureMessage(reply) ==
  IF reply.kind = "network" THEN "fetch failed"
  ELSE IF ~ok(reply.status)
  THEN "Sync API error: " \o ToString(reply.status) \o " - upstream text"
  ELSE "Unexpected token"

\* C11: whatever the upstream re-index call does, the Sync Trigger returns
\* a Triggered, Skipped or Failed value to the handler that called it and
\* raises nothing; an exception or another non-2xx status comes back as a
\* Failed value that carries the message.
C11_SyncNeverRaises ==
  \A s \in Slots :
    LET sl == slot[s]
    IN SyncDone(sl) =>
         /\ sl.pc # "threw"
         /\ "syncResponse" \in DOMAIN sl.loc
         /\ \/ IsTriggered(sl.loc.syncResponse)
            \/ IsSkipped(sl.loc.syncResponse)
            \/ IsFailed(sl.loc.syncResponse)
         /\ ~(sl.resp.status = 500)
         /\ UpstreamFailure(sl.loc.syncReply) =>
              /\ IsFailed(sl.loc.syncResponse)
              /\ sl.loc.syncResponse.message = FailureMessage(sl.loc.syncReply)
         /\ sl.loc.syncReply = NoReply => IsSkipped(sl.loc.syncResponse)

\* A network failure of the upstream call has come back as a Failed value.
C11_Witness ==
  \E s \in Slots :
    /\ SyncDone(slot[s])
    /\ slot[s].pc = "done"
    /\ slot[s].loc.syncReply.kind = "network"
    /\ IsFailed(slot[s].loc.syncResponse)

\* The handler of sl encloses a sync call in an ingestion.
IngestWithSync(sl) ==
  /\ env.variant = "legacy"
  /\ sl.req.pathname \in {"/api/ingest", "/api/render-ingest"}

\* C12: an upstream 429 or 409 makes the Sync Trigger's outcome Skipped and
\* not Failed, and the ingest request around it still answers success: true.
C12_CooldownIsSkipped ==
  \A s \in Slots :
    LET sl == slot[s]
    IN (/\ SyncDone(sl)
        /\ sl.loc.syncReply.kind = "response"
        /\ sl.loc.syncReply.status \in {429, 409})
       => /\ "syncResponse" \in DOMAIN sl.loc
          /\ IsSkipped(sl.loc.syncResponse)
          /\ ~IsFailed(sl.loc.syncResponse)
          /\ IngestWithSync(sl) =>
               /\ sl.pc = "done"
               /\ IngestSuccess(sl.resp)

\* An ingest request whose sync call met a 409 has been answered.
C12_Witness ==
  \E s \in Slots :
    /\ SyncDone(slot[s])
    /\ slot[s].loc.syncReply.kind = "response"
    /\ slot[s].loc.syncReply.status = 409
    /\ slot[s].req.pathname = "/api/ingest"
    /\ IngestSuccess(slot[s].resp)

\* The handler of sl has called the Sync Trigger.
SyncCalled(sl) ==
  \/ sl.pc = "legacy.handleIngestion:sync"
  \/ SyncDone(sl)
  \/ \E i \in 1..Len(sl.calls) : sl.calls[i].op = "reindex"

\* C13: an ingest request calls the Sync Trigger only once its blob is in
\* the store, and then answers 200 with success: true whatever the outcome
\* is; the outcome is the sync field of the response.
C13_IngestIndependentOfSync ==
  \A s \in Slots :
    LET sl == slot[s]
    IN (/\ env.variant = "legacy"
        /\ sl.req.pathname = "/api/ingest"
        /\ SyncCalled(sl))
       => /\ sl.loc.key \in DOMAIN bucket
          /\ bucket[sl.loc.key] = sl.loc.blob
          /\ lastPut[sl.loc.key].id = sl.id
          /\ SyncDone(sl) =>
               /\ sl.pc = "done"
               /\ IngestSuccess(sl.resp)
               /\ "syncResponse" \in DOMAIN sl.loc
               /\ sl.resp.body.val.sync = sl.loc.syncResponse

\* An ingest request whose sync failed has been answered with success.
C13_Witness ==
  \E s \in Slots :
    /\ env.variant = "legacy"
    /\ slot[s].req.pathname = "/api/ingest"
    /\ SyncDone(slot[s])
    /\ IsFailed(slot[s].loc.syncResponse)
    /\ IngestSuccess(slot[s].resp)
    /\ slot[s].resp.body.val.sync = slot[s].loc.syncResponse

(***************************************************************************)
(* Properties of the tool-protocol endpoint.                               *)
(***************************************************************************)
\* A POST to /mcp of the unified worker whose handler has read the body.
RpcPost(sl) ==
  /\ env.variant = "v2"
  /\ sl.req.pathname = "/mcp"
  /\ sl.req.method = "POST"
  /\ sl.pc \notin {"idle", "fetch", "NLWebMcp.fetch", "NLWebMcp.fetch:json"}

\* The envelope is a JSON object.
RpcEnvelope(sl) == RpcPost(sl) /\ sl.req.body.t = "object"

ToolCall(sl) ==
  /\ RpcEnvelope(sl)
  /\ Get(sl.req.body, "method") = Str(<<"t", "o", "o", "l", "s", "/", "c", "a", "l", "l">>)

ToolName(sl) == Get(Get(sl.req.body, "params"), "name")

ToolArguments(sl) == Get(Get(sl.req.body, "params"), "arguments")

\* The positions of the backend calls in the call log of sl.
BackendCallsAt(sl) ==
  {i \in 1..Len(sl.calls) : sl.calls[i].op \in {"aiSearch", "search"}}

\* The response of sl is a JSON-RPC error with this code.
RpcErrorCode(sl, code) ==
  /\ sl.pc = "done"
  /\ sl.resp.body.kind = "json"
  /\ "error" \in DOMAIN sl.resp.body.val
  /\ sl.resp.body.val.error.code = code

\* C14: a JSON-RPC request that carries an id is answered with the same id,
\* whatever its method and whether the answer is a result or an error;
\* the ids 0 and "" are echoed as they are.
C14_IdEchoed ==
  \A s \in Slots :
    LET sl == slot[s]
    IN (/\ RpcEnvelope(sl)
        /\ "id" \in DOMAIN sl.req.body.v
        /\ sl.pc # "NLWebMcp.fetch:aiSearch")
       => /\ sl.pc = "done"
          /\ sl.resp.body.kind = "json"
          /\ sl.resp.body.val.id = sl.req.body.v.id

\* A -32602 error has been answered to a request whose id is 0.
C14_Witness ==
  \E s \in Slots :
    /\ RpcEnvelope(slot[s])
    /\ "id" \in DOMAIN slot[s].req.body.v
    /\ slot[s].req.body.v.id = Whole(0)
    /\ RpcErrorCode(slot[s], -32602)
    /\ slot[s].resp.body.val.id = Whole(0)

\* C15: a tools/call whose tool name is not "ask", or is missing, is
\* answered with error -32601 and the request's id, and no call to the
\* search backend is made, whatever the arguments.
C15_UnknownToolIs32601 ==
  \A s \in Slots :
    LET sl == slot[s]
    IN (ToolCall(sl) /\ ToolName(sl) # Str(<<"a", "s", "k">>))
       => /\ RpcErrorCode(sl, -32601)
          /\ sl.resp.body.val.id = Coalesce(Get(sl.req.body, "id"), Null)
          /\ BackendCallsAt(sl) = {}

\* A tools/call without a tool name, with a query, has been answered.
C15_Witness ==
  \E s \in Slots :
    /\ ToolCall(slot[s])
    /\ ToolName(slot[s]) = Undefined
    /\ Get(ToolArguments(slot[s]), "query") = Str(<<"q">>)
    /\ RpcErrorCode(slot[s], -32601)

\* C16: a tools/call of "ask" without a query, or with an empty one, is
\* answered with error -32602 and dispatches no search; one with a
\* non-empty query dispatches exactly one search in answer mode, and the
\* backend's result is the result of the RPC response.
C16_AskToolDispatch ==
  \A s \in Slots :
    LET sl == slot[s]
        query == Get(ToolArguments(sl), "query")
    IN (ToolCall(sl) /\ ToolName(sl) = Str(<<"a", "s", "k">>))
       => IF query \in {Undefined, Str(<<>>)}
          THEN /\ RpcErrorCode(sl, -32602)
               /\ BackendCallsAt(sl) = {}
          ELSE /\ Cardinality(BackendCallsAt(sl)) = 1
               /\ \A i \in BackendCallsAt(sl) :
                    /\ sl.calls[i].op = "aiSearch"
                    /\ sl.calls[i].params.query = query.v
                    /\ "stream" \notin DOMAIN sl.calls[i].params
               /\ "result" \in DOMAIN sl.loc =>
                    /\ sl.pc = "done"
                    /\ sl.resp.body.val =
                         [jsonrpc |-> "2.0",
                          id |-> Coalesce(Get(sl.req.body, "id"), Null),
                          result |-> sl.loc.result]

\* A tools/call of "ask" with a query of one blank has been answered with
\* the backend's result.
C16_Witness ==
  \E s \in Slots :
    /\ ToolCall(slot[s])
    /\ ToolName(slot[s]) = Str(<<"a", "s", "k">>)
    /\ Get(ToolArguments(slot[s]), "query") = Str(<<" ">>)
    /\ slot[s].pc = "done"
    /\ "result" \in DOMAIN slot[s].loc
    /\ slot[s].resp.body.val.result = slot[s].loc.result

\* C17: no exception leaves the tool-protocol endpoint; an exception met
\* while a request is handled is answered with error -32000 that carries
\* the exception's message.
C17_ExceptionsAre32000 ==
  \A s \in Slots :
    LET sl == slot[s]
    IN RpcPost(sl) =>
         /\ sl.pc # "threw"
         /\ "e" \in DOMAIN sl.loc =>
              /\ RpcErrorCode(sl, -32000)
              /\ sl.resp.body.val.error.data.message = sl.loc.e

(***************************************************************************)
(* Properties of the preflight and of the CORS headers.                    *)
(***************************************************************************)
\* The worker's fetch has computed the CORS headers of the request of sl.
Routed(sl) == sl.pc \notin {"idle", "fetch"}

\* C18: an OPTIONS request to any path is answered 204 without a body and
\* with the CORS headers computed for it, and no handler runs: no call is
\* made and nothing is stored.
C18_PreflightIs204 ==
  \A s \in Slots :
    LET sl == slot[s]
    IN (sl.req.method = "OPTIONS" /\ Routed(sl))
       => /\ sl.pc = "done"
          /\ sl.resp.status = 204
          /\ sl.resp.body.kind = "none"
          /\ sl.resp.headers = sl.cors
          /\ "AccessControlAllowOrigin" \in DOMAIN sl.resp.headers
          /\ sl.calls = <<>>
          /\ bucket = EmptyBucket

\* The allow-list in force: the configured one, "*" when none is set.
ListInForce(e) ==
  IF e.ALLOWED_ORIGINS = Undefined THEN {<<"*">>}
  ELSE AllowedList(e.ALLOWED_ORIGINS.v)

\* C19: the Access-Control-Allow-Origin header is "*" when the allow-list
\* contains "*", else the request's origin when it is present and listed,
\* else "null"; the allowed methods are GET, POST, OPTIONS and the allowed
\* headers include Content-Type, Authorization and Accept.
C19_CorsHeaders ==
  \A s \in Slots :
    LET sl == slot[s]
        origin == sl.req.origin
    IN Routed(sl) =>
         /\ sl.cors.AccessControlAllowOrigin =
              IF <<"*">> \in ListInForce(env) THEN <<"*">>
              ELSE IF origin # Null /\ origin.v \in ListInForce(env)
              THEN origin.v
              ELSE <<"n", "u", "l", "l">>
         /\ sl.cors.AccessControlAllowMethods = <<"G", "E", "T", ",", " ", "P", "O", "S", "T", ",", " ", "O", "P", "T", "I", "O", "N", "S">>
         /\ includes(sl.cors.AccessControlAllowHeaders, <<"C", "o", "n", "t", "e", "n", "t", "-", "T", "y", "p", "e">>)
         /\ includes(sl.cors.AccessControlAllowHeaders, <<"A", "u", "t", "h", "o", "r", "i", "z", "a", "t", "i", "o", "n">>)
         /\ includes(sl.cors.AccessControlAllowHeaders, <<"A", "c", "c", "e", "p", "t">>)

\* The response of sl reports an error: a 4xx or 5xx status, or a JSON-RPC
\* error object.
ErrorResponse(sl) ==
  /\ sl.pc = "done"
  /\ \/ sl.resp.status >= 400
     \/ /\ sl.resp.body.kind = "json"
        /\ sl.req.pathname = "/mcp"
        /\ "error" \in DOMAIN sl.resp.body.val

\* C20: every error response, on every route, carries the CORS headers
\* computed for its request.
C20_ErrorsCarryCors ==
  \A s \in Slots :
    LET sl == slot[s]
    IN ErrorResponse(sl) =>
         /\ "AccessControlAllowOrigin" \in DOMAIN sl.cors
         /\ \A h \in DOMAIN sl.cors :
              /\ h \in DOMAIN sl.resp.headers
              /\ sl.resp.headers[h] = sl.cors[h]

(***************************************************************************)
(* Properties of the error path.                                           *)
(***************************************************************************)
\* C21: no exception leaves the worker's fetch: whatever fails while a
\* request is handled (the parsing of its body, the blob store, the
\* backend, the renderer), the handler answers, and a 500 it builds has a
\* JSON body with an error field.
C21_NoExceptionEscapes ==
  \A s \in Slots :
    LET sl == slot[s]
    IN /\ sl.pc # "threw"
       /\ (sl.pc = "done" /\ sl.resp.status = 500
           /\ sl.resp.body.kind # "asset")
          => /\ sl.resp.body.kind = "json"
             /\ "error" \in DOMAIN sl.resp.body.val

(***************************************************************************)
(* Properties of the normalized search request.                            *)
(***************************************************************************)
\* The handler of sl is handleAsk and has normalized its request.
Normalized(sl) ==
  /\ env.variant = "v2"
  /\ sl.req.pathname \in {"/ask", "/api/autorag-search"}
  /\ "stream" \in DOMAIN sl.loc

\* The fields come from the JSON body, not from the query string.
JsonBranch(req) ==
  /\ req.method = "POST"
  /\ ~Nullish(req.contentType)
  /\ includes(req.contentType.v, <<"j", "s", "o", "n">>)

StreamTokens == {<<"1">>, <<"t", "r", "u", "e">>, <<"y", "e", "s">>, <<"o", "n">>}

\* The request's stream field is one of the truthy tokens.
StreamRequested(req) ==
  LET field == IF JsonBranch(req) THEN Get(req.body, "stream")
               ELSE SearchParam(req, "stream")
  IN ~Nullish(field) /\ toLowerCase(String(field)) \in StreamTokens

\* The Accept header contains the event-stream media type.
AcceptsStream(req) ==
  ~Nullish(req.accept) /\ includes(req.accept.v, <<"t", "e", "x", "t", "/", "e", "v", "e", "n", "t", "-", "s", "t", "r", "e", "a", "m">>)

\* The configured default-streaming flag is set.
StreamByDefault(e) ==
  ~Nullish(e.STREAM_DEFAULT) /\ toLowerCase(e.STREAM_DEFAULT.v) \in StreamTokens

\* C22: the normalized wantsStream of a search request is true exactly
\* when its stream field is a truthy token, or its Accept header contains
\* text/event-stream, or the default-streaming flag is configured.
C22_WantsStream ==
  \A s \in Slots :
    LET sl == slot[s]
    IN Normalized(sl) =>
         (sl.loc.stream <=> \/ StreamRequested(sl.req)
                            \/ AcceptsStream(sl.req)
                            \/ StreamByDefault(env))

(***************************************************************************)
(* Properties of the search response.                                      *)
(***************************************************************************)
\* The search handler of the deployed worker has answered sl with success.
SearchSucceeded(sl) ==
  /\ sl.pc = "done"
  /\ sl.resp.status = 200
  /\ sl.req.method \in {"GET", "POST"}
  /\ \/ env.variant = "v2" /\ sl.req.pathname \in {"/ask", "/api/autorag-search"}
     \/ env.variant = "legacy" /\ sl.req.pathname = "/api/autorag-search"

\* Streaming was requested for sl: the normalized flag of the unified
\* worker, the stream field of the body in the legacy worker.
WantsStream(sl) ==
  IF env.variant = "v2" THEN sl.loc.stream
  ELSE Truthy(Get(sl.req.body, "stream"))

IsEventStream(resp) == resp.body.kind = "stream"

IsJsonDocument(resp) ==
  /\ resp.body.kind = "json"
  /\ resp.headers.ContentType = <<"a", "p", "p", "l", "i", "c", "a", "t", "i", "o", "n", "/", "j", "s", "o", "n">>

\* C23: a successful search is answered with an event stream when
\* streaming was requested for it and with a JSON document when it was
\* not, in every backend mode.
C23_StreamOrJson ==
  \A s \in Slots :
    LET sl == slot[s]
    IN SearchSucceeded(sl) =>
         IF WantsStream(sl) THEN IsEventStream(sl.resp)
         ELSE IsJsonDocument(sl.resp)

\* A POST /ask whose JSON body holds a non-empty query and nothing else,
\* on a unified worker without external LLM and without overridden defaults.
PlainAsk(sl) ==
  /\ env.variant = "v2"
  /\ ~Truthy(env.USE_EXTERNAL_LLM)
  /\ env.DEFAULT_TOPK = Undefined
  /\ env.DEFAULT_THRESHOLD = Undefined
  /\ sl.req.method = "POST"
  /\ sl.req.pathname = "/ask"
  /\ JsonBranch(sl.req)
  /\ sl.req.body.t = "object"
  /\ DOMAIN sl.req.body.v = {"query"}
  /\ sl.req.body.v.query.t = "string"
  /\ trim(sl.req.body.v.query.v) # <<>>
  /\ sl.pc \notin {"idle", "fetch", "handleAsk", "handleAsk:json"}

\* C24: a POST /ask with only a non-empty query, no external LLM and no
\* overridden default calls the backend binding exactly once, in
\* answer-generating mode, with max_num_results 6, score_threshold 0.30 and
\* rewrite_query true; the backend's result is the body of the 200 response.
C24_DefaultAsk ==
  \A s \in Slots :
    LET sl == slot[s]
    IN PlainAsk(sl) =>
         /\ Len(sl.calls) = 2
         /\ sl.calls[1].op = "req.json"
         /\ sl.calls[2].op = "aiSearch"
         /\ sl.calls[2].params.query = trim(sl.req.body.v.query.v)
         /\ sl.calls[2].params.max_num_results = Whole(6)
         /\ sl.calls[2].params.ranking_options.score_threshold = Num(30)
         /\ sl.calls[2].params.rewrite_query = Bool(TRUE)
         /\ "result" \in DOMAIN sl.loc =>
              /\ sl.pc = "done"
              /\ sl.resp.status = 200
              /\ sl.resp.body.val = sl.loc.result

\* Such a request has been answered with the backend's result as JSON.
C24_Witness ==
  \E s \in Slots :
    /\ PlainAsk(slot[s])
    /\ slot[s].pc = "done"
    /\ "result" \in DOMAIN slot[s].loc
    /\ slot[s].resp.body = [kind |-> "json", val |-> slot[s].loc.result]

\* The positions of the calls of sl that carry a query to the retrieval
\* backend, through the binding or through the REST API.
QueryCallsAt(sl) ==
  {i \in 1..Len(sl.calls) :
     sl.calls[i].op \in {"aiSearch", "search", "rest:ai-search", "rest:search"}}

\* The query of a call, as a string.
QueryOf(call) ==
  IF DOMAIN call.params.query = {"t", "v"} THEN call.params.query.v
  ELSE call.params.query

\* C25: every query passed to the retrieval backend, by the /ask handler,
\* by the legacy search handler and by tools/call, is non-empty and has no
\* leading or trailing whitespace.
C25_QueryTrimmed ==
  \A s \in Slots :
    \A i \in QueryCallsAt(slot[s]) :
      LET query == QueryOf(slot[s].calls[i])
      IN /\ query # <<>>
         /\ trim(query) = query


\* The positions of the calls of sl with the given operation.
CallsAt(sl, op) == {i \in 1..Len(sl.calls) : sl.calls[i].op = op}

\* The retrieval-only call of sl has returned a result.
RetrievalReturned(sl) == "searchResult" \in DOMAIN sl.loc

\* The retrieval-only call of sl was issued and raised: the request is
\* over and no result was ever bound.
RetrievalFailed(sl) ==
  /\ env.variant = "v2"
  /\ Truthy(env.USE_EXTERNAL_LLM)
  /\ sl.pc = "done"
  /\ CallsAt(sl, "search") # {}
  /\ ~RetrievalReturned(sl)

\* C26: in external-LLM mode the generation call is issued at most once per
\* request, after the retrieval-only call was issued and has returned, and
\* only when it returned at least one document; when the retrieval call
\* fails no generation call is issued and the response is a 500.
C26_RetrievalBeforeGeneration ==
  \A s \in Slots :
    LET sl == slot[s]
        generation == CallsAt(sl, "streamText")
    IN /\ Cardinality(generation) <= 1
       /\ \A g \in generation :
            /\ \E r \in CallsAt(sl, "search") : r < g
            /\ RetrievalReturned(sl)
            /\ ~Nullish(sl.loc.searchResult)
            /\ "data" \in DOMAIN sl.loc.searchResult.v
            /\ Len(sl.loc.searchResult.v.data) >= 1
       /\ sl.pc = "handleAsk:search" => generation = {}
       /\ RetrievalFailed(sl) =>
            /\ generation = {}
            /\ sl.resp.status = 500

\* A request answered from a generation call that followed a retrieval of
\* two documents.
C26_Witness ==
  \E s \in Slots :
    /\ slot[s].pc = "done"
    /\ slot[s].resp.status = 200
    /\ CallsAt(slot[s], "streamText") # {}
    /\ RetrievalReturned(slot[s])
    /\ Len(slot[s].loc.searchResult.v.data) = 2

\* A request whose retrieval-only call failed has been answered.
C26_WitnessFailure ==
  \E s \in Slots : RetrievalFailed(slot[s])

(***************************************************************************)
(* Properties of the search modal.                                         *)
(***************************************************************************)
\* C27: once closeModal has run, results and error stay null until a new
\* search starts, whatever arrives for a request that was in flight: no
\* search can start while the modal is closed, so whenever the modal is
\* closed results and error are null.
C27_ClosedStaysEmpty ==
  ~modal.showModal =>
    /\ modal.results = Null
    /\ modal.error = Null

\* C28: at most one search request is in flight at any time, and loading is
\* true exactly while a request has started and not yet settled.
C28_OneSearchInFlight ==
  /\ Len(modal.searches) <= 1
  /\ modal.loading <=> modal.searches # <<>>

\* The modal was closed and opened again while its request is in flight,
\* waiting for the body of the answer.
C28_Witness ==
  /\ modal.showModal
  /\ modal.searchQuery = <<>>
  /\ modal.loading
  /\ Len(modal.searches) = 1
  /\ modal.searches[1].pc = "json"

(***************************************************************************)
(* Properties of the ingestion script.                                     *)
(***************************************************************************)
\* The files of the script, as positions.
Files == DOMAIN script.task

\* The number of the batch file f belongs to.
BatchOf(f) == (f - 1) \div BATCH_SIZE

\* The files whose ingest request was sent and has not been settled.
InFlight == {f \in Files : script.task[f] \in {"fetch", "text", "json"}}

\* The files whose call of ingestFile was started and has not settled.
Unsettled == {f \in Files : script.task[f] \notin Settled \cup {"pending"}}

\* C29: never more than 5 ingest requests are in flight; the files go in
\* consecutive batches of at most 5, all calls of a batch start together
\* and only after every call of the batches before has settled; a failed
\* call stops nothing: when the script has exited, every file was attempted.
C29_BatchesOfFive ==
  /\ Cardinality(InFlight) <= 5
  /\ Cardinality(Unsettled) <= 5
  /\ \A f, g \in Files :
       /\ BatchOf(f) = BatchOf(g) =>
            (script.task[f] = "pending" <=> script.task[g] = "pending")
       /\ BatchOf(g) < BatchOf(f) /\ script.task[f] # "pending" =>
            script.task[g] \in Settled
  /\ script.pc = "exited" => \A f \in Files : script.task[f] \in Settled

\* A request of the second batch is in flight after a call of the first
\* batch was rejected.
C29_Witness ==
  /\ \E g \in Files : BatchOf(g) = 0 /\ script.task[g] = "rejected"
  /\ \E f \in InFlight : BatchOf(f) = 1

\* C30: the request to /api/sync is sent at most once, only after every
\* ingest call has settled, only if a file was ingested and dry-run is off;
\* a dry run sends no request at all; a run that found files exits with 1
\* if a file failed and with 0 otherwise, whatever the outcome of the sync
\* request.
C30_FinalSync ==
  /\ script.syncRequests <= 1
  /\ script.syncRequests = 1 =>
       /\ \A f \in Files : script.task[f] \in Settled
       /\ \E f \in Files : script.task[f] = "fulfilled"
       /\ ~script.DRY_RUN
  /\ script.DRY_RUN =>
       /\ script.ingestRequests = {}
       /\ script.syncRequests = 0
  /\ script.pc = "exited" /\ Files # {} =>
       script.exitCode = IF \E f \in Files : script.task[f] = "rejected"
                         THEN 1 ELSE 0
====
